---- MODULE Spec2Model ----
(***************************************************************************)
(* Model of the jira-mcp Cloudflare-Worker runtime: the credential vault   *)
(* (WorkerAuthService over D1), the internal request signer/verifier, the  *)
(* Edge Router (entry.ts fetch) and the Session Actor (the Durable Object  *)
(* of session-do.ts).                                                      *)
(*                                                                         *)
(* Every D1 statement is one atomic step; the JavaScript that runs between *)
(* two awaits is folded into the step whose continuation it is.  Several   *)
(* requests are in flight at once and interleave at their awaits.          *)
(***************************************************************************)
EXTENDS Integers, Sequences, FiniteSets, TLC

\* ------------------------------------------------------------------------
\* Bounds of the model
\* ------------------------------------------------------------------------
\* Tokens issued and workspaces created in a run, days the clock advances.
MaxTokens == 2
MaxWorkspaces == 1
MaxDays == 1
\* Requests in flight at once, and tokens issued, when requests race.
MaxInflight == 2
RaceTokens == 1

\* ------------------------------------------------------------------------
\* Program constants
\* ------------------------------------------------------------------------
MIN_PASSWORD_LENGTH == 10
DEFAULT_TOKEN_TTL_DAYS == 30
LIST_LIMIT == 100
MAX_TOKEN_TTL_DAYS == 365
MIN_WORKSPACE_SECRET_LENGTH == 32
\* The clock is read at a resolution of one second (TLC's integers are 32 bits
\* wide: 365 days do not fit in milliseconds): 24 * 60 * 60 * 1000 ms.
DaySeconds == 24 * 60 * 60

\* ------------------------------------------------------------------------
\* Value conventions
\* ------------------------------------------------------------------------
\* A JavaScript null/undefined string, a SQL NULL text column, an absent header.
Absent == "<absent>"
\* A SQL NULL timestamp column (timestamps are ISO-8601 strings of fixed width,
\* whose lexicographic order is the order of the instants: modelled as the
\* instant in milliseconds).
NoTime == 0 - 1
\* No row / no context / no response.
None == [kind |-> "none"]
\* No CryptoKey (getWorkspaceCryptoKey returned null).
NoKey == <<>>

UserIdPool == <<"u1", "u2", "u3", "u4">>
TokenIdPool == <<"t1", "t2", "t3", "t4">>
WorkspaceIdPool == <<"w1", "w2", "w3">>
SecretPool == <<"mcp_1", "mcp_2", "mcp_3", "mcp_4">>

Slots == 1..MaxInflight

\* ------------------------------------------------------------------------
\* Pure helpers of auth-service.ts
\* ------------------------------------------------------------------------
\* String.prototype.trim() followed by toLowerCase(), on the e-mail inputs drawn.
TrimLower(e) ==
    CASE e = " A@X.io " -> "a@x.io"
      [] e = " B@X.io " -> "b@x.io"
      [] OTHER -> e

\* EMAIL_REGEX.test(e), on the normalized e-mail inputs drawn.
EMAIL_REGEX(e) == e \in {"a@x.io", "b@x.io"}

\* SHA-256 of the token text, base64url: collision-free on the secrets drawn.
hashToken(token) == <<"sha256", token>>

\* PBKDF2-SHA-256 of (password, salt).
hashPassword(password, salt) == <<"pbkdf2", password, salt>>

\* timingSafeEqual(left, right): equal length and no differing character.
timingSafeEqual(left, right) == left = right

\* The header is a pair <<scheme, credentials>>, <<>> when it is not sent;
\* /^Bearer\s+(.+)$/i matches the scheme case-insensitively.
getBearerToken(authorization) ==
    IF authorization # <<>> /\ authorization[1] \in {"Bearer", "bearer"}
    THEN authorization[2]
    ELSE Absent

MaxOf(a, b) == IF a > b THEN a ELSE b
MinOf(a, b) == IF a < b THEN a ELSE b

\* A validation that does not cap the lifetime at MAX_TOKEN_TTL_DAYS.
validateTokenOptions_Uncapped(options, t) ==
    IF options.tokenNameLen > 80
    THEN [ok |-> FALSE, error |-> "tokenName must be 80 characters or fewer."]
    ELSE IF options.neverExpires
    THEN [ok |-> TRUE, expiresAt |-> NoTime]
    ELSE IF options.hasDays /\ options.days = 0 /\ ~options.halfDay
    THEN [ok |-> TRUE, expiresAt |-> NoTime]
    ELSE IF options.hasDays /\ options.days < 0
    THEN [ok |-> FALSE, error |-> "expiresInDays must be a positive number, 0, or omitted."]
    ELSE LET ttlDays == IF options.hasDays
                        THEN MaxOf(1, options.days)
                        ELSE DEFAULT_TOKEN_TTL_DAYS
         IN [ok |-> TRUE, expiresAt |-> t + ttlDays * DaySeconds]

\* options: [tokenNameLen, neverExpires, hasDays, days, halfDay]; expiresInDays
\* is days, or days + 0.5 with halfDay, so that days is Math.floor of it; t is
\* Date.now().
validateTokenOptions(options, t) ==
    IF options.tokenNameLen > 80
    THEN [ok |-> FALSE, error |-> "tokenName must be 80 characters or fewer."]
    ELSE IF options.neverExpires
    THEN [ok |-> TRUE, expiresAt |-> NoTime]
    ELSE IF options.hasDays /\ options.days = 0 /\ ~options.halfDay
    THEN [ok |-> TRUE, expiresAt |-> NoTime]
    ELSE IF options.hasDays /\ options.days < 0
    THEN [ok |-> FALSE, error |-> "expiresInDays must be a positive number, 0, or omitted."]
    ELSE LET ttlDays == IF options.hasDays
                        THEN MaxOf(1, MinOf(MAX_TOKEN_TTL_DAYS, options.days))
                        ELSE DEFAULT_TOKEN_TTL_DAYS
         IN [ok |-> TRUE, expiresAt |-> t + ttlDays * DaySeconds]

\* new URL(raw) with path, query and fragment cleared, http(s) only.
normalizeJiraBaseUrl(value) ==
    CASE value = " https://jira.example/browse?x=1 " -> "https://jira.example"
      [] value = "https://jira.example" -> "https://jira.example"
      [] OTHER -> Absent

\* SHA-256 of the deployment secret, imported as an AES-GCM key.
deriveWorkspaceCryptoKey(secret) == <<"aes-key", secret>>

\* An encryption that returns another iv than the one it sealed with.
encryptSecret_OtherIv(key, plainText, iv) ==
    [ciphertext |-> <<"aes-gcm", key, iv, plainText>>, iv |-> <<"iv", "other">>]

\* AES-GCM: the ciphertext opens only under the key and the iv that sealed it.
encryptSecret(key, plainText, iv) ==
    [ciphertext |-> <<"aes-gcm", key, iv, plainText>>, iv |-> iv]

\* [ok |-> FALSE] stands for the rejected promise of crypto.subtle.decrypt.
decryptSecret(key, ciphertext, iv) ==
    IF ciphertext[2] = key /\ ciphertext[3] = iv
    THEN [ok |-> TRUE, plainText |-> ciphertext[4]]
    ELSE [ok |-> FALSE]

\* this.workspaceSecret?.trim(), at least MIN_WORKSPACE_SECRET_LENGTH long.
getWorkspaceCryptoKey(workspaceSecret) ==
    IF workspaceSecret = Absent \/ Len(workspaceSecret) < MIN_WORKSPACE_SECRET_LENGTH
    THEN NoKey
    ELSE deriveWorkspaceCryptoKey(workspaceSecret)

jsonResponse(status, payload) == [kind |-> "response", status |-> status, payload |-> payload]

\* ------------------------------------------------------------------------
\* State
\* ------------------------------------------------------------------------
VARIABLES
    env,          \* the Worker's bindings and secrets (fixed at deployment)
    now,          \* the wall clock, in milliseconds
    users,        \* D1 table users:            id -> row
    tokens,       \* D1 table api_tokens:       id -> row
    workspaces,   \* D1 table jira_workspaces:  id -> row
    wsCreated,    \* how many workspace ids crypto.randomUUID() has handed out
    reqs,         \* the /auth requests in flight: slot -> request
    deletions,    \* history: the deleteWorkspace calls that passed their ownership check
    sessions,     \* each Session Actor's in-memory table: partition -> (session id -> entry)
    sidCreated,   \* how many session ids crypto.randomUUID() has handed out
    mcp           \* the /mcp requests in flight: slot -> request

gatewayVars == <<sessions, sidCreated, mcp>>
vars == <<env, now, users, tokens, workspaces, wsCreated, reqs, deletions, sessions, sidCreated, mcp>>

Idle == [op |-> "idle", pc |-> "idle"]

\* ------------------------------------------------------------------------
\* Inputs drawn for the /auth endpoints
\* ------------------------------------------------------------------------
RawEmails == {"a@x.io", " A@X.io ", "not-an-email"}
Passwords == {"short", "correct-horse"}
WrongPassword == "battery-staple"
LongWorkspaceSecret == "0123456789abcdef0123456789abcdef"
ShortWorkspaceSecret == "too-short"
\* What resolveBetterAuthUserFromRequest answers for the request's cookie.
SessionUsers == {None, [kind |-> "session", userId |-> "ba1", email |-> " B@X.io "]}
TokenOptionInputs ==
    { [tokenNameLen |-> 7, neverExpires |-> TRUE, hasDays |-> FALSE, days |-> 0, halfDay |-> FALSE],
      [tokenNameLen |-> 7, neverExpires |-> FALSE, hasDays |-> TRUE, days |-> 1, halfDay |-> FALSE],
      [tokenNameLen |-> 81, neverExpires |-> FALSE, hasDays |-> FALSE, days |-> 0, halfDay |-> FALSE] }
WorkspaceInputs ==
    { [workspaceName |-> "ws-A", jiraBaseUrl |-> " https://jira.example/browse?x=1 ",
       jiraUsername |-> " A@X.io ", jiraApiToken |-> "jira-api-token-1"],
      [workspaceName |-> "ws-A", jiraBaseUrl |-> "ftp://jira.example",
       jiraUsername |-> "a@x.io", jiraApiToken |-> "jira-api-token-1"],
      [workspaceName |-> "ws-A", jiraBaseUrl |-> "https://jira.example",
       jiraUsername |-> "a@x.io", jiraApiToken |-> "short"],
      [workspaceName |-> Absent, jiraBaseUrl |-> "https://jira.example",
       jiraUsername |-> "a@x.io", jiraApiToken |-> "jira-api-token-1"] }

IssuedSecrets == {SecretPool[i] : i \in 1..Cardinality(DOMAIN tokens)}
\* The bearer credentials a caller may present: issued ones and one never issued.
PresentedSecrets == IssuedSecrets \cup {"mcp_forged"}
Authorizations == {<<>>} \cup {<<"Bearer", s>> : s \in PresentedSecrets}

\* ------------------------------------------------------------------------
\* Table access
\* ------------------------------------------------------------------------
UsersByEmail(email) == {id \in DOMAIN users : users[id].email = email}

\* A WHERE clause that still admits a token at the instant it expires.
TokenRowIsValid_AtExpiry(row, tokenHash, t) ==
    /\ row.tokenHash = tokenHash
    /\ row.revokedAt = NoTime
    /\ (row.expiresAt = NoTime \/ row.expiresAt >= t)

\* The WHERE clause of validateUserToken's SELECT, on one api_tokens row.
TokenRowIsValid(row, tokenHash, t) ==
    /\ row.tokenHash = tokenHash
    /\ row.revokedAt = NoTime
    /\ (row.expiresAt = NoTime \/ row.expiresAt > t)

\* A SELECT that does not look at revoked_at.
ValidateSelect_IgnoresRevoked(token, t) ==
    { [kind |-> "row", tokenId |-> id, userId |-> tokens[id].userId,
       workspaceId |-> tokens[id].workspaceId, email |-> users[tokens[id].userId].email]
      : id \in {i \in DOMAIN tokens : /\ tokens[i].tokenHash = hashToken(token)
                                       /\ (tokens[i].expiresAt = NoTime \/ tokens[i].expiresAt > t)
                                       /\ tokens[i].userId \in DOMAIN users} }

\* validateUserToken's SELECT ... INNER JOIN users ... LIMIT 1: the rows it may return.
ValidateSelect(token, t) ==
    { [kind |-> "row", tokenId |-> id, userId |-> tokens[id].userId,
       workspaceId |-> tokens[id].workspaceId, email |-> users[tokens[id].userId].email]
      : id \in {i \in DOMAIN tokens : /\ TokenRowIsValid(tokens[i], hashToken(token), t)
                                       /\ tokens[i].userId \in DOMAIN users} }

UserAuthContext(row) ==
    [kind |-> "user", userId |-> row.userId, email |-> row.email,
     tokenId |-> row.tokenId, workspaceId |-> row.workspaceId]

EmptyTable == [x \in {} |-> None]
Extend(f, k, v) == [x \in DOMAIN f \cup {k} |-> IF x = k THEN v ELSE f[x]]
Remove(f, K) == [x \in DOMAIN f \ K |-> f[x]]

\* ------------------------------------------------------------------------
\* /auth requests: the record of one request in flight
\* ------------------------------------------------------------------------
NewRequest(op, authorization, session, arg) ==
    [op |-> op, pc |-> "start", authorization |-> authorization, session |-> session,
     arg |-> arg, ctx |-> None, tmp |-> None, resp |-> None]

\* The handler returns `resp`; the request and its locals die with it.
Respond(q, resp) == [op |-> q.op, pc |-> "done", resp |-> resp]

\* The handler awaits its next statement at `pc` with the locals `tmp`.
Goto(q, pc, tmp) == [q EXCEPT !.pc = pc, !.tmp = tmp]

\* As Goto, past the last use of the request's headers and body.
GotoBody(q, pc, tmp) ==
    [q EXCEPT !.pc = pc, !.tmp = tmp, !.authorization = <<>>, !.session = None, !.arg = None]

NotConfigured ==
    jsonResponse(503, [error |-> "Auth is not configured. Bind a D1 database before using /auth routes."])
Unauthorized == jsonResponse(401, [error |-> "Unauthorized"])

\* String.prototype.trim() on the ids drawn (an id is sent bare or padded).
Trim(v) ==
    CASE v = " t1 " -> "t1"
      [] v = " w1 " -> "w1"
      [] v = " " -> ""
      [] v = " jira-api-token-2 " -> "jira-api-token-2"
      [] OTHER -> v

\* x?.trim() || null
TrimOrNull(v) == IF v = Absent \/ Trim(v) = "" THEN Absent ELSE Trim(v)

\* The code of each handler between requireUserContext's return and the
\* handler's first own statement; t is the clock at that continuation.
AfterAuth(q, ctx, t) ==
    LET a == [q EXCEPT !.ctx = IF ctx = None THEN None ELSE [userId |-> ctx.userId]] IN
    IF ctx = None THEN Respond(a, Unauthorized)
    ELSE CASE q.op = "revokeToken" ->
                IF TrimOrNull(q.arg.tokenId) = Absent
                THEN Respond(a, jsonResponse(400, [error |-> "tokenId is required."]))
                ELSE GotoBody(a, "r_select", [tokenId |-> Trim(q.arg.tokenId)])
           [] q.op = "createToken" ->
                LET tokenOptions == validateTokenOptions(q.arg.options, t) IN
                IF ~tokenOptions.ok
                THEN Respond(a, jsonResponse(400, [error |-> tokenOptions.error]))
                ELSE GotoBody(a,
                          IF TrimOrNull(q.arg.workspaceId) # Absent THEN "t_wscheck" ELSE "t_insert",
                          [userId |-> ctx.userId, email |-> ctx.email,
                           options |-> q.arg.options,
                           expiresAt |-> tokenOptions.expiresAt,
                           workspaceId |-> TrimOrNull(q.arg.workspaceId)])
           [] q.op = "createWorkspace" ->
                LET key == getWorkspaceCryptoKey(env.JIRA_WORKSPACE_ENCRYPTION_KEY)
                    workspaceName == TrimOrNull(q.arg.workspaceName)
                    jiraBaseUrl == normalizeJiraBaseUrl(q.arg.jiraBaseUrl)
                    jiraUsername == TrimLower(q.arg.jiraUsername)
                    jiraApiToken == TrimOrNull(q.arg.jiraApiToken)
                IN IF key = NoKey
                   THEN Respond(a, jsonResponse(503, [error |-> "Workspace encryption is not configured. Set JIRA_WORKSPACE_ENCRYPTION_KEY in Worker env."]))
                   ELSE IF workspaceName = Absent \/ Len(workspaceName) > 80
                   THEN Respond(a, jsonResponse(400, [error |-> "workspaceName is required and must be 80 characters or fewer."]))
                   ELSE IF jiraBaseUrl = Absent
                   THEN Respond(a, jsonResponse(400, [error |-> "jiraBaseUrl must be a valid http(s) URL."]))
                   ELSE IF ~EMAIL_REGEX(jiraUsername)
                   THEN Respond(a, jsonResponse(400, [error |-> "jiraUsername must be a valid email."]))
                   ELSE IF jiraApiToken = Absent \/ Len(jiraApiToken) < 8
                   THEN Respond(a, jsonResponse(400, [error |-> "jiraApiToken is required and must be at least 8 characters."]))
                   ELSE GotoBody(a, "w_dup", [key |-> key, workspaceName |-> workspaceName,
                                          jiraBaseUrl |-> jiraBaseUrl, jiraUsername |-> jiraUsername,
                                          jiraApiToken |-> jiraApiToken])
           [] q.op = "deleteWorkspace" ->
                IF TrimOrNull(q.arg.workspaceId) = Absent
                THEN Respond(a, jsonResponse(400, [error |-> "workspaceId is required."]))
                ELSE GotoBody(a, "d_select", [workspaceId |-> Trim(q.arg.workspaceId)])
           [] q.op = "listTokens" ->
                GotoBody(a, "l_select", [tokenId |-> ctx.tokenId])
           [] OTHER -> Respond(a, Unauthorized)

\* validateUserToken's UPDATE api_tokens SET last_used_at WHERE id.
TouchToken(tokenId, t) ==
    [id \in DOMAIN tokens |-> IF id = tokenId THEN [tokens[id] EXCEPT !.lastUsedAt = t]
                                               ELSE tokens[id]]

\* requireUserContext, up to its first await of a statement of its own: the
\* outcomes are pairs <<request, api_tokens>>.  validateUserToken (SELECT, then
\* UPDATE of last_used_at) is taken as one step of the database.
RequireUserContext(q, t) ==
    LET token == getBearerToken(q.authorization) IN
    IF token # Absent
    THEN IF ValidateSelect(token, t) = {}
         THEN {<<AfterAuth(q, None, t), tokens>>}
         ELSE {<<AfterAuth(q, UserAuthContext(row), t), TouchToken(row.tokenId, t)>>
               : row \in ValidateSelect(token, t)}
    ELSE IF q.session = None
    THEN {<<AfterAuth(q, None, t), tokens>>}
    ELSE LET normalizedEmail == TrimLower(q.session.email) IN
         IF normalizedEmail = ""
         THEN {<<AfterAuth(q, None, t), tokens>>}
         ELSE IF UsersByEmail(normalizedEmail) # {}
         THEN {<<AfterAuth(q, [kind |-> "user", userId |-> id, email |-> q.session.email,
                               tokenId |-> "", workspaceId |-> Absent], t), tokens>>
               : id \in UsersByEmail(normalizedEmail)}
         ELSE {<<Goto(q, "legacy_insert", [email |-> normalizedEmail]), tokens>>}

\* ------------------------------------------------------------------------
\* /auth handlers, one action per D1 statement
\* ------------------------------------------------------------------------
Set(r, q) == reqs' = [reqs EXCEPT ![r] = q]

\* A response is handed back before anything else happens.
Quiet == \A r \in Slots : reqs[r].pc # "done"

\* A new request takes the first free slot.
Free(r) == Quiet /\ reqs[r] = Idle /\ \A r2 \in Slots : r2 < r => reqs[r2] # Idle

\* Request r awaits the statement at `pc`.
At(r, pc) == Quiet /\ reqs[r].pc = pc

\* handleAuthRequest dispatching to a handler that calls requireUserContext.
StartAuthenticated(r, op, authorization, session, arg) ==
    /\ Free(r)
    /\ IF ~env.AUTH_DB
       THEN /\ Set(r, Respond(NewRequest(op, authorization, session, arg), NotConfigured))
            /\ tokens' = tokens
       ELSE \E out \in RequireUserContext(NewRequest(op, authorization, session, arg), now) :
                /\ Set(r, out[1])
                /\ tokens' = out[2]
    /\ UNCHANGED <<env, now, users, workspaces, wsCreated, deletions>>
    /\ UNCHANGED gatewayVars

StartRevokeToken(r) ==
    \E authorization \in Authorizations, session \in SessionUsers,
       tokenId \in DOMAIN tokens \cup {" t1 ", Absent} :
        StartAuthenticated(r, "revokeToken", authorization, session, [tokenId |-> tokenId])

CreateToken(r, optionInputs) ==
    \E authorization \in Authorizations, session \in SessionUsers,
       options \in optionInputs, workspaceId \in DOMAIN workspaces \cup {"w1", " ", Absent} :
        StartAuthenticated(r, "createToken", authorization, session,
                           [options |-> options, workspaceId |-> workspaceId])

StartCreateToken(r) == CreateToken(r, TokenOptionInputs)

CreateWorkspace(r, inputs) ==
    \E authorization \in Authorizations, session \in SessionUsers, input \in inputs :
        StartAuthenticated(r, "createWorkspace", authorization, session, input)

StartCreateWorkspace(r) == CreateWorkspace(r, WorkspaceInputs)

StartDeleteWorkspace(r) ==
    \E authorization \in Authorizations, session \in SessionUsers,
       workspaceId \in DOMAIN workspaces \cup {" w1 ", Absent} :
        StartAuthenticated(r, "deleteWorkspace", authorization, session,
                           [workspaceId |-> workspaceId])

\* crypto.randomUUID(): an id no row has.
FreshUserId ==
    UserIdPool[1 + Cardinality({i \in 1..Len(UserIdPool) : UserIdPool[i] \in DOMAIN users})]

\* The users table's constraints: PRIMARY KEY (id), UNIQUE (email).
UsersInsertConflicts(id, email) ==
    id \in DOMAIN users \/ UsersByEmail(email) # {}

\* resolveLegacyUserIdForSession's INSERT, with its catch branch.
LegacyInsert(r) ==
    /\ At(r, "legacy_insert")
    /\ LET q == reqs[r]
           userId == q.session.userId
       IN IF UsersInsertConflicts(userId, q.tmp.email)
          THEN /\ users' = users
               /\ \E id \in UsersByEmail(q.tmp.email) \cup
                            (IF UsersByEmail(q.tmp.email) = {} THEN {Absent} ELSE {}) :
                     Set(r, AfterAuth(q, IF id = Absent THEN None
                                         ELSE [kind |-> "user", userId |-> id,
                                               email |-> q.session.email, tokenId |-> "",
                                               workspaceId |-> Absent], now))
          ELSE /\ users' = Extend(users, userId,
                                  [email |-> q.tmp.email,
                                   passwordHash |-> hashPassword("<random>", userId),
                                   passwordSalt |-> userId])
               /\ Set(r, AfterAuth(q, [kind |-> "user", userId |-> userId,
                                       email |-> q.session.email, tokenId |-> "",
                                       workspaceId |-> Absent], now))
    /\ UNCHANGED <<env, now, tokens, workspaces, wsCreated, deletions>>
    /\ UNCHANGED gatewayVars

\* register: validation and the SELECT for an existing user.
StartRegister(r) ==
    \E rawEmail \in RawEmails \cup {Absent}, password \in Passwords :
        LET q == NewRequest("register", <<>>, None, [email |-> rawEmail, password |-> password])
            email == IF rawEmail = Absent THEN Absent ELSE TrimLower(rawEmail)
        IN /\ Free(r)
           /\ Set(r, IF ~env.AUTH_DB THEN Respond(q, NotConfigured)
                     ELSE IF email = Absent \/ ~EMAIL_REGEX(email)
                     THEN Respond(q, jsonResponse(400, [error |-> "A valid email is required."]))
                     ELSE IF Len(password) < MIN_PASSWORD_LENGTH
                     THEN Respond(q, jsonResponse(400, [error |-> "Password must be at least 10 characters long."]))
                     ELSE IF UsersByEmail(email) # {}
                     THEN Respond(q, jsonResponse(409, [error |-> "A user with this email already exists."]))
                     ELSE GotoBody(q, "g_insert", [email |-> email, password |-> password]))
           /\ UNCHANGED <<env, now, users, tokens, workspaces, wsCreated, deletions>>
           /\ UNCHANGED gatewayVars

\* register: the INSERT; a constraint violation is an uncaught exception.
RegisterInsert(r) ==
    /\ At(r, "g_insert")
    /\ LET q == reqs[r]
           userId == FreshUserId
       IN IF UsersInsertConflicts(userId, q.tmp.email)
          THEN /\ users' = users
               /\ Set(r, Respond(q, [kind |-> "exception", status |-> 500, payload |-> None]))
          ELSE /\ users' = Extend(users, userId,
                                  [email |-> q.tmp.email,
                                   passwordHash |-> hashPassword(q.tmp.password, userId),
                                   passwordSalt |-> userId])
               /\ Set(r, Respond(q, jsonResponse(201, [userId |-> userId, email |-> q.tmp.email])))
    /\ UNCHANGED <<env, now, tokens, workspaces, wsCreated, deletions>>
    /\ UNCHANGED gatewayVars

\* login: the SELECT of the user, the password check and validateTokenOptions.
Login(r, optionInputs) ==
    \E rawEmail \in RawEmails, password \in Passwords \cup {WrongPassword},
       options \in optionInputs :
        LET q == NewRequest("login", <<>>, None,
                            [email |-> rawEmail, password |-> password, options |-> options])
            email == TrimLower(rawEmail)
            tokenOptions == validateTokenOptions(options, now)
        IN /\ Free(r)
           /\ IF ~env.AUTH_DB THEN Set(r, Respond(q, NotConfigured))
              ELSE IF UsersByEmail(email) = {}
              THEN Set(r, Respond(q, jsonResponse(401, [error |-> "Invalid email or password."])))
              ELSE \E id \in UsersByEmail(email) :
                     Set(r, IF ~timingSafeEqual(hashPassword(password, users[id].passwordSalt),
                                                users[id].passwordHash)
                            THEN Respond(q, jsonResponse(401, [error |-> "Invalid email or password."]))
                            ELSE IF ~tokenOptions.ok
                            THEN Respond(q, jsonResponse(400, [error |-> tokenOptions.error]))
                            ELSE GotoBody(q, "t_insert",
                                      [userId |-> id, email |-> users[id].email,
                                       options |-> options,
                                       expiresAt |-> tokenOptions.expiresAt,
                                       workspaceId |-> Absent]))
           /\ UNCHANGED <<env, now, users, tokens, workspaces, wsCreated, deletions>>
           /\ UNCHANGED gatewayVars

StartLogin(r) == Login(r, TokenOptionInputs)

\* A check that looks the workspace up by id alone.
TokenWorkspaceCheck_AnyOwner(r) ==
    /\ At(r, "t_wscheck")
    /\ LET q == reqs[r] IN
       Set(r, IF \E w \in DOMAIN workspaces : w = q.tmp.workspaceId
              THEN Goto(q, "t_insert", q.tmp)
              ELSE Respond(q, jsonResponse(404, [error |-> "Workspace not found for this user."])))
    /\ UNCHANGED <<env, now, users, tokens, workspaces, wsCreated, deletions>>
    /\ UNCHANGED gatewayVars

\* createToken: the SELECT that checks the workspace belongs to the caller.
TokenWorkspaceCheck(r) ==
    /\ At(r, "t_wscheck")
    /\ LET q == reqs[r] IN
       Set(r, IF \E w \in DOMAIN workspaces :
                     w = q.tmp.workspaceId /\ workspaces[w].userId = q.ctx.userId
              THEN Goto(q, "t_insert", q.tmp)
              ELSE Respond(q, jsonResponse(404, [error |-> "Workspace not found for this user."])))
    /\ UNCHANGED <<env, now, users, tokens, workspaces, wsCreated, deletions>>
    /\ UNCHANGED gatewayVars

\* issueToken: the INSERT into api_tokens (from login and from createToken).
issueToken(userId, tokenPlainText, tokenId, expiresAt, workspaceId, t) ==
    Extend(tokens, tokenId,
           [userId |-> userId, workspaceId |-> workspaceId,
            tokenHash |-> hashToken(tokenPlainText), createdAt |-> t,
            expiresAt |-> expiresAt, lastUsedAt |-> NoTime, revokedAt |-> NoTime])

TokenInsert(r, cap) ==
    /\ At(r, "t_insert")
    /\ Cardinality(DOMAIN tokens) < cap
    /\ LET q == reqs[r]
           n == Cardinality(DOMAIN tokens) + 1
       IN /\ tokens' = issueToken(q.tmp.userId, SecretPool[n], TokenIdPool[n],
                                  q.tmp.expiresAt, q.tmp.workspaceId, now)
          /\ Set(r, Respond(q, jsonResponse(IF q.op = "login" THEN 200 ELSE 201,
                                            [token |-> SecretPool[n], tokenId |-> TokenIdPool[n],
                                             workspaceId |-> q.tmp.workspaceId,
                                             expiresAt |-> q.tmp.expiresAt,
                                             userId |-> q.tmp.userId])))
    /\ UNCHANGED <<env, now, users, workspaces, wsCreated, deletions>>
    /\ UNCHANGED gatewayVars

StartListTokens(r) ==
    \E authorization \in Authorizations, session \in SessionUsers :
        StartAuthenticated(r, "listTokens", authorization, session, None)

\* The orders in which a SELECT ... ORDER BY created_at DESC LIMIT n may
\* return the rows `ids` (rows of equal created_at come in either order).
NewestFirst(ids, n) ==
    { SubSeq(f, 1, MinOf(n, Len(f))) :
        f \in { g \in [1..Cardinality(ids) -> ids] :
                  /\ \A i, j \in DOMAIN g : g[i] = g[j] => i = j
                  /\ \A i, j \in DOMAIN g :
                        i < j => tokens[g[i]].createdAt >= tokens[g[j]].createdAt } }

\* One element of listTokens' `tokens` array.
ListedToken(id, currentTokenId) ==
    [id |-> id, workspaceId |-> tokens[id].workspaceId,
     workspaceName |-> IF tokens[id].workspaceId \in DOMAIN workspaces
                       THEN workspaces[tokens[id].workspaceId].workspaceName ELSE Absent,
     createdAt |-> tokens[id].createdAt, lastUsedAt |-> tokens[id].lastUsedAt,
     expiresAt |-> tokens[id].expiresAt, revokedAt |-> tokens[id].revokedAt,
     isCurrent |-> IF currentTokenId # "" THEN id = currentTokenId ELSE FALSE]

\* A listing that selects without the user_id condition.
ListSelectRows_Everyone(userId) == DOMAIN tokens

\* listTokens' SELECT ... WHERE api_tokens.user_id = context.userId.
ListSelectRows(userId) == {id \in DOMAIN tokens : tokens[id].userId = userId}

\* listTokens: the SELECT and the response built from its rows.
ListSelect(r) ==
    /\ At(r, "l_select")
    /\ LET q == reqs[r] IN
       \E rows \in NewestFirst(ListSelectRows(q.ctx.userId), LIST_LIMIT) :
          Set(r, Respond(q, jsonResponse(200,
                    [currentTokenId |-> IF q.tmp.tokenId # "" THEN q.tmp.tokenId ELSE Absent,
                     tokens |-> [i \in DOMAIN rows |-> ListedToken(rows[i], q.tmp.tokenId)]])))
    /\ UNCHANGED <<env, now, users, tokens, workspaces, wsCreated, deletions>>
    /\ UNCHANGED gatewayVars

\* A revokeToken that selects and updates by token id alone.
RevokeSelect_AnyOwner(r) ==
    /\ At(r, "r_select")
    /\ LET q == reqs[r]
           tokenId == q.tmp.tokenId
       IN Set(r, IF ~(tokenId \in DOMAIN tokens)
                 THEN Respond(q, jsonResponse(404, [error |-> "Token not found for this user."]))
                 ELSE IF tokens[tokenId].revokedAt # NoTime
                 THEN Respond(q, jsonResponse(200, [tokenId |-> tokenId,
                                                    revokedAt |-> tokens[tokenId].revokedAt,
                                                    alreadyRevoked |-> TRUE]))
                 ELSE Goto([q EXCEPT !.ctx = [userId |-> tokens[tokenId].userId]], "r_update",
                           [tokenId |-> tokenId, revokedAt |-> now]))
    /\ UNCHANGED <<env, now, users, tokens, workspaces, wsCreated, deletions>>
    /\ UNCHANGED gatewayVars

\* A revokeToken that does not look at revoked_at before it updates.
RevokeSelect_AlwaysUpdates(r) ==
    /\ At(r, "r_select")
    /\ LET q == reqs[r]
           tokenId == q.tmp.tokenId
       IN Set(r, IF ~(tokenId \in DOMAIN tokens /\ tokens[tokenId].userId = q.ctx.userId)
                 THEN Respond(q, jsonResponse(404, [error |-> "Token not found for this user."]))
                 ELSE Goto(q, "r_update", [tokenId |-> tokenId, revokedAt |-> now]))
    /\ UNCHANGED <<env, now, users, tokens, workspaces, wsCreated, deletions>>
    /\ UNCHANGED gatewayVars

\* revokeToken: the SELECT of the caller's token.
RevokeSelect(r) ==
    /\ At(r, "r_select")
    /\ LET q == reqs[r]
           tokenId == q.tmp.tokenId
       IN Set(r, IF ~(tokenId \in DOMAIN tokens /\ tokens[tokenId].userId = q.ctx.userId)
                 THEN Respond(q, jsonResponse(404, [error |-> "Token not found for this user."]))
                 ELSE IF tokens[tokenId].revokedAt # NoTime
                 THEN Respond(q, jsonResponse(200, [tokenId |-> tokenId,
                                                    revokedAt |-> tokens[tokenId].revokedAt,
                                                    alreadyRevoked |-> TRUE]))
                 ELSE Goto(q, "r_update", [tokenId |-> tokenId, revokedAt |-> now]))
    /\ UNCHANGED <<env, now, users, tokens, workspaces, wsCreated, deletions>>
    /\ UNCHANGED gatewayVars

\* An UPDATE that clears revoked_at when it finds it set.
RevokeUpdateRows_Toggle(tokenId, userId, revokedAt) ==
    [id \in DOMAIN tokens |->
        IF id = tokenId /\ tokens[id].userId = userId
        THEN [tokens[id] EXCEPT !.revokedAt = IF @ = NoTime THEN revokedAt ELSE NoTime]
        ELSE tokens[id]]

\* revokeToken: UPDATE api_tokens SET revoked_at WHERE id AND user_id.
RevokeUpdateRows(tokenId, userId, revokedAt) ==
    [id \in DOMAIN tokens |->
        IF id = tokenId /\ tokens[id].userId = userId
        THEN [tokens[id] EXCEPT !.revokedAt = revokedAt]
        ELSE tokens[id]]

RevokeUpdate(r) ==
    /\ At(r, "r_update")
    /\ LET q == reqs[r] IN
       /\ tokens' = RevokeUpdateRows(q.tmp.tokenId, q.ctx.userId, q.tmp.revokedAt)
       /\ Set(r, Respond(q, jsonResponse(200, [tokenId |-> q.tmp.tokenId,
                                               revokedAt |-> q.tmp.revokedAt,
                                               alreadyRevoked |-> FALSE])))
    /\ UNCHANGED <<env, now, users, workspaces, wsCreated, deletions>>
    /\ UNCHANGED gatewayVars

\* createWorkspace: the SELECT for a workspace of the same name, then
\* encryptSecret, nowIso() and crypto.randomUUID().
WorkspaceDupCheck(r) ==
    /\ At(r, "w_dup")
    /\ LET q == reqs[r]
           duplicate == \E w \in DOMAIN workspaces :
                            /\ workspaces[w].userId = q.ctx.userId
                            /\ workspaces[w].workspaceName = q.tmp.workspaceName
       IN IF duplicate
          THEN /\ Set(r, Respond(q, jsonResponse(409, [error |-> "A workspace with this name already exists."])))
               /\ wsCreated' = wsCreated
          ELSE /\ wsCreated < MaxWorkspaces
               /\ wsCreated' = wsCreated + 1
               /\ LET workspaceId == WorkspaceIdPool[wsCreated + 1]
                      encrypted == encryptSecret(q.tmp.key, q.tmp.jiraApiToken, <<"iv", workspaceId>>)
                  IN Set(r, Goto(q, "w_insert",
                                 [workspaceId |-> workspaceId,
                                  row |-> [userId |-> q.ctx.userId,
                                           workspaceName |-> q.tmp.workspaceName,
                                           jiraBaseUrl |-> q.tmp.jiraBaseUrl,
                                           jiraUsername |-> q.tmp.jiraUsername,
                                           jiraApiTokenCiphertext |-> encrypted.ciphertext,
                                           jiraApiTokenIv |-> encrypted.iv,
                                           lastUsedAt |-> NoTime]]))
    /\ UNCHANGED <<env, now, users, tokens, workspaces, deletions>>
    /\ UNCHANGED gatewayVars

\* UNIQUE INDEX idx_jira_workspaces_user_name (user_id, workspace_name).
WorkspacesInsertConflicts(row) ==
    \E w \in DOMAIN workspaces :
        workspaces[w].userId = row.userId /\ workspaces[w].workspaceName = row.workspaceName

\* createWorkspace: the INSERT; a constraint violation is an uncaught exception.
WorkspaceInsert(r) ==
    /\ At(r, "w_insert")
    /\ LET q == reqs[r] IN
       IF WorkspacesInsertConflicts(q.tmp.row)
       THEN /\ workspaces' = workspaces
            /\ Set(r, Respond(q, [kind |-> "exception", status |-> 500, payload |-> None]))
       ELSE /\ workspaces' = Extend(workspaces, q.tmp.workspaceId, q.tmp.row)
            /\ Set(r, Respond(q, jsonResponse(201, [id |-> q.tmp.workspaceId,
                                                    workspaceName |-> q.tmp.row.workspaceName])))
    /\ UNCHANGED <<env, now, users, tokens, wsCreated, deletions>>
    /\ UNCHANGED gatewayVars

\* The history of deleteWorkspace, per workspace: every token that was scoped to
\* it when a deletion of it started, and the furthest any deletion of it got.
PhaseRank(phase) == CASE phase = "started" -> 1 [] phase = "revoked" -> 2 [] phase = "returned" -> 3

Deletion(workspaceId, scoped, phase) ==
    IF workspaceId \in DOMAIN deletions
    THEN [deletions EXCEPT ![workspaceId] =
             [scoped |-> @.scoped \cup scoped,
              phase |-> IF PhaseRank(phase) > PhaseRank(@.phase) THEN phase ELSE @.phase]]
    ELSE Extend(deletions, workspaceId, [scoped |-> scoped, phase |-> phase])

\* The history is written beside the step of request r that has just started a
\* deletion, and beside the steps that take a deletion to `phase`.
RecordStarted(r) ==
    deletions' = IF reqs'[r].pc = "d_revoke"
                 THEN Deletion(reqs'[r].tmp.workspaceId, reqs'[r].tmp.scoped, "started")
                 ELSE deletions

RecordPhase(r, phase) ==
    deletions' = Deletion(reqs[r].tmp.workspaceId, reqs[r].tmp.scoped, phase)

\* deleteWorkspace: the SELECT that verifies ownership; the UPDATE's nowIso()
\* is read when the statement is built.
DeleteSelect(r) ==
    /\ At(r, "d_select")
    /\ LET q == reqs[r]
           workspaceId == q.tmp.workspaceId
           scoped == {id \in DOMAIN tokens : tokens[id].workspaceId = workspaceId}
       IN IF workspaceId \in DOMAIN workspaces
             /\ workspaces[workspaceId].userId = q.ctx.userId
          THEN Set(r, Goto(q, "d_revoke", [workspaceId |-> workspaceId, revokedAt |-> now,
                                           scoped |-> scoped]))
          ELSE Set(r, Respond(q, jsonResponse(404, [error |-> "Workspace not found for this user."])))
    /\ UNCHANGED <<env, now, users, tokens, workspaces, wsCreated>>
    /\ UNCHANGED gatewayVars

\* An UPDATE that matches on the wrong workspace column value.
RevokeWorkspaceTokens_Unscoped(userId, workspaceId, revokedAt) ==
    [id \in DOMAIN tokens |->
        IF /\ tokens[id].userId = userId
           /\ tokens[id].workspaceId = Absent
           /\ tokens[id].revokedAt = NoTime
        THEN [tokens[id] EXCEPT !.revokedAt = revokedAt]
        ELSE tokens[id]]

\* UPDATE api_tokens SET revoked_at WHERE user_id AND workspace_id AND revoked_at IS NULL.
RevokeWorkspaceTokens(userId, workspaceId, revokedAt) ==
    [id \in DOMAIN tokens |->
        IF /\ tokens[id].userId = userId
           /\ tokens[id].workspaceId = workspaceId
           /\ tokens[id].revokedAt = NoTime
        THEN [tokens[id] EXCEPT !.revokedAt = revokedAt]
        ELSE tokens[id]]

\* DELETE FROM jira_workspaces WHERE id AND user_id.
DeleteWorkspaceRow(userId, workspaceId) ==
    Remove(workspaces, {w \in DOMAIN workspaces : w = workspaceId /\ workspaces[w].userId = userId})

\* A first write that deletes the workspace row before any token is revoked.
DeleteFirstWrite_RowFirst(q) ==
    /\ workspaces' = DeleteWorkspaceRow(q.ctx.userId, q.tmp.workspaceId)
    /\ tokens' = tokens

\* deleteWorkspace's first write.
DeleteFirstWrite(q) ==
    /\ tokens' = RevokeWorkspaceTokens(q.ctx.userId, q.tmp.workspaceId, q.tmp.revokedAt)
    /\ workspaces' = workspaces

\* deleteWorkspace's second write.
DeleteSecondWrite(q) ==
    /\ workspaces' = DeleteWorkspaceRow(q.ctx.userId, q.tmp.workspaceId)
    /\ tokens' = tokens

DeleteRevoke(r) ==
    /\ At(r, "d_revoke")
    /\ DeleteFirstWrite(reqs[r])
    /\ Set(r, Goto(reqs[r], "d_delete", reqs[r].tmp))
    /\ UNCHANGED <<env, now, users, wsCreated>>
    /\ UNCHANGED gatewayVars

DeleteDelete(r) ==
    /\ At(r, "d_delete")
    /\ DeleteSecondWrite(reqs[r])
    /\ Set(r, Respond(reqs[r], jsonResponse(200, [workspaceId |-> reqs[r].tmp.workspaceId,
                                                 deleted |-> TRUE,
                                                 revokedWorkspaceTokens |-> TRUE])))
    /\ UNCHANGED <<env, now, users, wsCreated>>
    /\ UNCHANGED gatewayVars

\* validateUserToken(token) at clock t: the pairs <<context, api_tokens>> it
\* may leave, the SELECT and the UPDATE of last_used_at taken as one step.
validateUserToken(token, t) ==
    IF ~env.AUTH_DB \/ ValidateSelect(token, t) = {}
    THEN {<<None, tokens>>}
    ELSE {<<UserAuthContext(row), TouchToken(row.tokenId, t)>> : row \in ValidateSelect(token, t)}

\* validateUserToken(token), called for a presented bearer credential:
\* hashToken, nowIso(), the SELECT, the UPDATE of last_used_at, the context.
ValidateUserToken(r) ==
    \E token \in PresentedSecrets :
        LET Returned(context) == [op |-> "validateUserToken", pc |-> "done",
                                  token |-> token, resp |-> context]
        IN /\ Free(r)
           /\ IF ~env.AUTH_DB \/ ValidateSelect(token, now) = {}
              THEN /\ Set(r, Returned(None))
                   /\ tokens' = tokens
              ELSE \E row \in ValidateSelect(token, now) :
                     /\ Set(r, Returned(UserAuthContext(row)))
                     /\ tokens' = TouchToken(row.tokenId, now)
           /\ UNCHANGED <<env, now, users, workspaces, wsCreated, deletions>>
           /\ UNCHANGED gatewayVars

\* The response has been sent: the request is gone.
Reap(r) ==
    /\ reqs[r].pc = "done"
    /\ Set(r, Idle)
    /\ UNCHANGED <<env, now, users, tokens, workspaces, wsCreated, deletions>>
    /\ UNCHANGED gatewayVars

\* The Worker invocation dies between two awaits (eviction, timeout, exception):
\* the statements already run stay, the rest never runs.
Crash(r) ==
    /\ Quiet
    /\ reqs[r].pc # "idle"
    /\ Set(r, Idle)
    /\ UNCHANGED <<env, now, users, tokens, workspaces, wsCreated, deletions>>
    /\ UNCHANGED gatewayVars

\* A day passes; a request lasts seconds, so none is in flight across it.
TickDay ==
    /\ \A r \in Slots : reqs[r] = Idle
    /\ now + DaySeconds <= MaxDays * DaySeconds
    /\ now' = now + DaySeconds
    /\ UNCHANGED <<env, users, tokens, workspaces, wsCreated, reqs, deletions>>
    /\ UNCHANGED gatewayVars

\* ------------------------------------------------------------------------
\* HTTP requests and the helpers of security.ts
\* ------------------------------------------------------------------------
\* A request is [method, pathname, search, headers, body]; Headers and
\* URLSearchParams are functions from names to values, and get() of a name
\* that is not there is null.
Get(bag, name) == IF name \in DOMAIN bag THEN bag[name] ELSE Absent
HeaderSet(headers, name, value) ==
    [n \in DOMAIN headers \cup {name} |-> IF n = name THEN value ELSE headers[n]]

\* x?.trim() || ""
TrimOrEmpty(v) == IF v = Absent THEN "" ELSE Trim(v)

INTERNAL_SIGNATURE_HEADER == "x-mcp-internal-signature"
INTERNAL_TIMESTAMP_HEADER == "x-mcp-internal-timestamp"
INTERNAL_VERSION_HEADER == "x-mcp-internal-version"
INTERNAL_SIGNATURE_VERSION == "v1"
\* A freshness window of half the length.
INTERNAL_SIGNATURE_MAX_AGE_MS_Halved == 1 * 60 * 1000

INTERNAL_SIGNATURE_MAX_AGE_MS == 2 * 60 * 1000

\* Date.now(), in milliseconds.
DateNow == now * 1000

\* Number.prototype.toString(): the decimal digits of a non-negative integer.
DigitText == <<"0", "1", "2", "3", "4", "5", "6", "7", "8", "9">>
RECURSIVE ToText(_)
ToText(n) == IF n < 10 THEN DigitText[n + 1] ELSE ToText(n \div 10) \o DigitText[(n % 10) + 1]

\* Number(text) on the texts drawn: the integer whose digits they are, NaN otherwise.
NaN == 0 - 1
ClockTexts == {m * 60 * 1000 : m \in 0..8}
Number(text) ==
    IF \E n \in ClockTexts : ToText(n) = text
    THEN CHOOSE n \in ClockTexts : ToText(n) = text
    ELSE NaN

Abs(n) == IF n < 0 THEN 0 - n ELSE n

\* e.MCP_AUTH_TOKENS is the list that split(",") yields.
resolveInternalSigningSecret(e) ==
    IF TrimOrNull(e.MCP_INTERNAL_SIGNING_SECRET) # Absent THEN Trim(e.MCP_INTERNAL_SIGNING_SECRET)
    ELSE IF TrimOrNull(e.BETTER_AUTH_SECRET) # Absent THEN Trim(e.BETTER_AUTH_SECRET)
    ELSE IF TrimOrNull(e.MCP_AUTH_TOKEN) # Absent THEN Trim(e.MCP_AUTH_TOKEN)
    ELSE IF \E i \in DOMAIN e.MCP_AUTH_TOKENS : Trim(e.MCP_AUTH_TOKENS[i]) # ""
    THEN Trim(e.MCP_AUTH_TOKENS[CHOOSE i \in DOMAIN e.MCP_AUTH_TOKENS :
                                    /\ Trim(e.MCP_AUTH_TOKENS[i]) # ""
                                    /\ \A j \in 1..(i - 1) : Trim(e.MCP_AUTH_TOKENS[j]) = ""])
    ELSE Absent

\* The signer's session id: a non-blank mcp-session-id header, else a non-blank
\* x-mcp-session-id header, else the sessionId query parameter.
getSessionId(headers, url) ==
    LET headerValue == IF TrimOrEmpty(Get(headers, "mcp-session-id")) # ""
                       THEN TrimOrEmpty(Get(headers, "mcp-session-id"))
                       ELSE TrimOrEmpty(Get(headers, "x-mcp-session-id"))
    IN IF headerValue # "" THEN headerValue
       ELSE TrimOrEmpty(Get(url.search, "sessionId"))

\* SHA-256 of the body bytes.
hashRequestBody(request) == <<"sha256", request.body>>

\* HMAC-SHA-256 under `secret` of the parts joined by newlines (no part holds a
\* newline, so the joined text determines the parts).
hmacSha256Base64Url(secret, parts) == <<"hmac", secret, parts>>

createInternalSignature(request, headers, timestamp, secret) ==
    hmacSha256Base64Url(secret,
        << INTERNAL_SIGNATURE_VERSION,
           request.method,
           request.pathname,
           request.search,
           getSessionId(headers, request),
           TrimOrEmpty(Get(headers, "x-auth-user-id")),
           TrimOrEmpty(Get(headers, "x-auth-user-email")),
           TrimOrEmpty(Get(headers, "x-auth-token-id")),
           TrimOrEmpty(Get(headers, "x-auth-workspace-id")),
           TrimOrEmpty(Get(headers, "x-jira-base-url")),
           TrimOrEmpty(Get(headers, "x-jira-username")),
           TrimOrEmpty(Get(headers, "x-jira-api-token")),
           timestamp,
           hashRequestBody(request) >>)

\* t is Date.now().
signWorkerToDoRequest(request, secret, t) ==
    LET timestamp == ToText(t)
        headers == HeaderSet(HeaderSet(request.headers, INTERNAL_TIMESTAMP_HEADER, timestamp),
                             INTERNAL_VERSION_HEADER, INTERNAL_SIGNATURE_VERSION)
        signature == createInternalSignature(request, headers, timestamp, secret)
    IN [request EXCEPT !.headers = HeaderSet(headers, INTERNAL_SIGNATURE_HEADER, signature)]

\* t is Date.now().
verifyWorkerToDoRequestSignature(request, secret, t) ==
    LET timestamp == TrimOrNull(Get(request.headers, INTERNAL_TIMESTAMP_HEADER))
        version == TrimOrNull(Get(request.headers, INTERNAL_VERSION_HEADER))
    IN /\ timestamp # Absent
       /\ INTERNAL_SIGNATURE_HEADER \in DOMAIN request.headers
       /\ version = INTERNAL_SIGNATURE_VERSION
       /\ Number(timestamp) # NaN
       /\ ~(Abs(t - Number(timestamp)) > INTERNAL_SIGNATURE_MAX_AGE_MS)
       /\ timingSafeEqual(request.headers[INTERNAL_SIGNATURE_HEADER],
                          createInternalSignature(request, request.headers, timestamp, secret))

\* ------------------------------------------------------------------------
\* The Edge Router's helpers (entry.ts)
\* ------------------------------------------------------------------------
SESSION_HUB_NAME == "jira-mcp-session-hub"

\* The set of static secrets: MCP_AUTH_TOKEN and the entries of MCP_AUTH_TOKENS.
parseAuthTokens(primary, fallback) ==
    (IF TrimOrNull(primary) # Absent THEN {Trim(primary)} ELSE {})
    \cup {Trim(fallback[i]) : i \in {j \in DOMAIN fallback : Trim(fallback[j]) # ""}}

\* entry.ts's getBearerToken(request).
RequestBearerToken(request) ==
    IF "authorization" \in DOMAIN request.headers
    THEN getBearerToken(request.headers["authorization"])
    ELSE Absent

attachAuthHeaders(request, context, workspaceCredentials) ==
    LET h0 == request.headers
        h1 == IF context.kind = "user"
              THEN HeaderSet(HeaderSet(HeaderSet(h0, "x-auth-user-id", context.userId),
                                       "x-auth-user-email", context.email),
                             "x-auth-token-id", context.tokenId)
              ELSE h0
        h2 == IF context.kind = "user" /\ context.workspaceId # Absent
              THEN HeaderSet(h1, "x-auth-workspace-id", context.workspaceId)
              ELSE h1
        h3 == IF workspaceCredentials # None
              THEN HeaderSet(HeaderSet(HeaderSet(h2, "x-jira-base-url", workspaceCredentials.jiraBaseUrl),
                                       "x-jira-username", workspaceCredentials.jiraUsername),
                             "x-jira-api-token", workspaceCredentials.jiraApiToken)
              ELSE h2
    IN [request EXCEPT !.headers = h3]

getSessionHubName(context) ==
    IF context.kind = "user" /\ context.workspaceId # Absent
    THEN "jira-workspace:" \o context.workspaceId
    ELSE SESSION_HUB_NAME

\* ------------------------------------------------------------------------
\* The Session Actor's helpers (session-do.ts)
\* ------------------------------------------------------------------------
InitializeBody == "{\"jsonrpc\":\"2.0\",\"id\":1,\"method\":\"initialize\"}"
CallBody == "{\"jsonrpc\":\"2.0\",\"id\":2,\"method\":\"tools/call\"}"
BrokenBody == "{not json"

createJsonRpcError(status, code, message) ==
    jsonResponse(status, [jsonrpc |-> "2.0", error |-> [code |-> code, message |-> message],
                          id |-> "null"])

\* request.clone().json() parses the two well-formed bodies drawn.
parseJsonBody(request) ==
    IF request.method # "POST" THEN [value |-> Absent, invalidJson |-> FALSE]
    ELSE IF request.body \in {InitializeBody, CallBody}
    THEN [value |-> request.body, invalidJson |-> FALSE]
    ELSE [value |-> Absent, invalidJson |-> TRUE]

\* The SDK's schema test for a JSON-RPC initialize request.
isInitializeRequest(body) == body = InitializeBody

\* A reading that prefers the query parameter.
readHeaderOrQuery_QueryFirst(request, headerName, queryName) ==
    IF TrimOrNull(Get(request.search, queryName)) # Absent
    THEN Trim(Get(request.search, queryName))
    ELSE TrimOrNull(Get(request.headers, headerName))

readHeaderOrQuery(request, headerName, queryName) ==
    IF TrimOrNull(Get(request.headers, headerName)) # Absent
    THEN Trim(Get(request.headers, headerName))
    ELSE TrimOrNull(Get(request.search, queryName))

\* A reading that does not insist on the API token.
readJiraCredentials_TokenOptional(request) ==
    LET baseUrl == readHeaderOrQuery(request, "x-jira-base-url", "jiraBaseUrl")
        username == readHeaderOrQuery(request, "x-jira-username", "jiraUsername")
        apiToken == readHeaderOrQuery(request, "x-jira-api-token", "jiraApiToken")
    IN IF baseUrl = Absent \/ username = Absent
       THEN None
       ELSE [kind |-> "credentials", baseUrl |-> baseUrl, username |-> username,
             apiToken |-> apiToken]

readJiraCredentials(request) ==
    LET baseUrl == readHeaderOrQuery(request, "x-jira-base-url", "jiraBaseUrl")
        username == readHeaderOrQuery(request, "x-jira-username", "jiraUsername")
        apiToken == readHeaderOrQuery(request, "x-jira-api-token", "jiraApiToken")
    IN IF baseUrl = Absent \/ username = Absent \/ apiToken = Absent
       THEN None
       ELSE [kind |-> "credentials", baseUrl |-> baseUrl, username |-> username,
             apiToken |-> apiToken]

\* The actor's session id: a non-blank sessionId query parameter, else the
\* mcp-session-id header when it is there (even blank), else x-mcp-session-id.
getSessionIdFromRequest(request) ==
    IF TrimOrNull(Get(request.search, "sessionId")) # Absent
    THEN Trim(Get(request.search, "sessionId"))
    ELSE IF Get(request.headers, "mcp-session-id") # Absent
    THEN TrimOrNull(Get(request.headers, "mcp-session-id"))
    ELSE TrimOrNull(Get(request.headers, "x-mcp-session-id"))

\* handleMcpRequest's comparison of a found session with the request's claims:
\* the message of the first check that fails, null when none does.
ownershipError_TokenUnchecked(existingSession, authUserId, authTokenId, authWorkspaceId) ==
    IF existingSession.authUserId # Absent /\ existingSession.authUserId # authUserId
    THEN "Session belongs to a different authenticated user."
    ELSE IF existingSession.authWorkspaceId # Absent
            /\ existingSession.authWorkspaceId # authWorkspaceId
    THEN "Session belongs to a different workspace."
    ELSE Absent

ownershipError(existingSession, authUserId, authTokenId, authWorkspaceId) ==
    IF existingSession.authUserId # Absent /\ existingSession.authUserId # authUserId
    THEN "Session belongs to a different authenticated user."
    ELSE IF existingSession.authTokenId # Absent /\ existingSession.authTokenId # authTokenId
    THEN "Session belongs to a different auth token."
    ELSE IF existingSession.authWorkspaceId # Absent
            /\ existingSession.authWorkspaceId # authWorkspaceId
    THEN "Session belongs to a different workspace."
    ELSE Absent

\* A handler that lets an initialize call through before it looks at the
\* session id.
handleMcpRequest_InitializeFirst(e, table, request, t) ==
    LET signingSecret == resolveInternalSigningSecret(e)
        authUserId == TrimOrNull(Get(request.headers, "x-auth-user-id"))
        authTokenId == TrimOrNull(Get(request.headers, "x-auth-token-id"))
        authWorkspaceId == TrimOrNull(Get(request.headers, "x-auth-workspace-id"))
        parsedBody == parseJsonBody(request)
        sessionId == getSessionIdFromRequest(request)
        found == sessionId # Absent /\ sessionId \in DOMAIN table
        isInit == request.method = "POST" /\ parsedBody.value # Absent
                  /\ isInitializeRequest(parsedBody.value)
        credentials == readJiraCredentials(request)
        Error(status, code, message) ==
            [kind |-> "error", response |-> createJsonRpcError(status, code, message)]
    IN IF signingSecret = Absent
       THEN Error(500, -32603, "Server misconfigured: missing internal signing secret")
       ELSE IF ~verifyWorkerToDoRequestSignature(request, signingSecret, t)
       THEN Error(401, -32002, "Unauthorized request")
       ELSE IF parsedBody.invalidJson
       THEN Error(400, -32700, "Parse error: request body must be valid JSON")
       ELSE IF found
       THEN IF ownershipError(table[sessionId], authUserId, authTokenId, authWorkspaceId) # Absent
            THEN Error(403, -32003,
                       ownershipError(table[sessionId], authUserId, authTokenId, authWorkspaceId))
            ELSE [kind |-> "delegate", sessionId |-> sessionId]
       ELSE IF isInit /\ credentials # None
       THEN [kind |-> "create",
             entry |-> [credentials |-> credentials, authUserId |-> authUserId,
                        authTokenId |-> authTokenId, authWorkspaceId |-> authWorkspaceId]]
       ELSE IF sessionId # Absent
       THEN Error(404, -32001, "Unknown or expired session ID. Re-run initialize to create a new session.")
       ELSE IF ~isInit
       THEN Error(400, -32000, "Bad Request: Send initialize first or include a valid MCP-Session-Id header.")
       ELSE Error(400, -32000, "Missing Jira credentials. Provide X-Jira-Base-Url, X-Jira-Username, and X-Jira-Api-Token.")

\* A handler that looks the session up before it verifies the signature.
handleMcpRequest_LookupFirst(e, table, request, t) ==
    LET signingSecret == resolveInternalSigningSecret(e)
        authUserId == TrimOrNull(Get(request.headers, "x-auth-user-id"))
        authTokenId == TrimOrNull(Get(request.headers, "x-auth-token-id"))
        authWorkspaceId == TrimOrNull(Get(request.headers, "x-auth-workspace-id"))
        parsedBody == parseJsonBody(request)
        sessionId == getSessionIdFromRequest(request)
        found == sessionId # Absent /\ sessionId \in DOMAIN table
        isInit == request.method = "POST" /\ parsedBody.value # Absent
                  /\ isInitializeRequest(parsedBody.value)
        credentials == readJiraCredentials(request)
        Error(status, code, message) ==
            [kind |-> "error", response |-> createJsonRpcError(status, code, message)]
    IN IF signingSecret = Absent
       THEN Error(500, -32603, "Server misconfigured: missing internal signing secret")
       ELSE IF found
       THEN [kind |-> "delegate", sessionId |-> sessionId]
       ELSE IF ~verifyWorkerToDoRequestSignature(request, signingSecret, t)
       THEN Error(401, -32002, "Unauthorized request")
       ELSE IF parsedBody.invalidJson
       THEN Error(400, -32700, "Parse error: request body must be valid JSON")
       ELSE IF sessionId # Absent
       THEN Error(404, -32001, "Unknown or expired session ID. Re-run initialize to create a new session.")
       ELSE IF ~isInit
       THEN Error(400, -32000, "Bad Request: Send initialize first or include a valid MCP-Session-Id header.")
       ELSE IF credentials = None
       THEN Error(400, -32000, "Missing Jira credentials. Provide X-Jira-Base-Url, X-Jira-Username, and X-Jira-Api-Token.")
       ELSE [kind |-> "create",
             entry |-> [credentials |-> credentials, authUserId |-> authUserId,
                        authTokenId |-> authTokenId, authWorkspaceId |-> authWorkspaceId]]

\* A handler that asks for the backend credentials before it asks whether the
\* request is an initialize call.
handleMcpRequest_CredentialsFirst(e, table, request, t) ==
    LET signingSecret == resolveInternalSigningSecret(e)
        authUserId == TrimOrNull(Get(request.headers, "x-auth-user-id"))
        authTokenId == TrimOrNull(Get(request.headers, "x-auth-token-id"))
        authWorkspaceId == TrimOrNull(Get(request.headers, "x-auth-workspace-id"))
        parsedBody == parseJsonBody(request)
        sessionId == getSessionIdFromRequest(request)
        found == sessionId # Absent /\ sessionId \in DOMAIN table
        isInit == request.method = "POST" /\ parsedBody.value # Absent
                  /\ isInitializeRequest(parsedBody.value)
        credentials == readJiraCredentials(request)
        Error(status, code, message) ==
            [kind |-> "error", response |-> createJsonRpcError(status, code, message)]
    IN IF signingSecret = Absent
       THEN Error(500, -32603, "Server misconfigured: missing internal signing secret")
       ELSE IF ~verifyWorkerToDoRequestSignature(request, signingSecret, t)
       THEN Error(401, -32002, "Unauthorized request")
       ELSE IF parsedBody.invalidJson
       THEN Error(400, -32700, "Parse error: request body must be valid JSON")
       ELSE IF found
       THEN IF ownershipError(table[sessionId], authUserId, authTokenId, authWorkspaceId) # Absent
            THEN Error(403, -32003,
                       ownershipError(table[sessionId], authUserId, authTokenId, authWorkspaceId))
            ELSE [kind |-> "delegate", sessionId |-> sessionId]
       ELSE IF sessionId # Absent
       THEN Error(404, -32001, "Unknown or expired session ID. Re-run initialize to create a new session.")
       ELSE IF credentials = None
       THEN Error(400, -32000, "Missing Jira credentials. Provide X-Jira-Base-Url, X-Jira-Username, and X-Jira-Api-Token.")
       ELSE IF ~isInit
       THEN Error(400, -32000, "Bad Request: Send initialize first or include a valid MCP-Session-Id header.")
       ELSE [kind |-> "create",
             entry |-> [credentials |-> credentials, authUserId |-> authUserId,
                        authTokenId |-> authTokenId, authWorkspaceId |-> authWorkspaceId]]

\* handleMcpRequest up to its last synchronous decision, on the actor's
\* table: an error response, the delegation to a session's transport, or the
\* creation of a server and transport; t is Date.now().
handleMcpRequest(e, table, request, t) ==
    LET signingSecret == resolveInternalSigningSecret(e)
        authUserId == TrimOrNull(Get(request.headers, "x-auth-user-id"))
        authTokenId == TrimOrNull(Get(request.headers, "x-auth-token-id"))
        authWorkspaceId == TrimOrNull(Get(request.headers, "x-auth-workspace-id"))
        parsedBody == parseJsonBody(request)
        sessionId == getSessionIdFromRequest(request)
        found == sessionId # Absent /\ sessionId \in DOMAIN table
        isInit == request.method = "POST" /\ parsedBody.value # Absent
                  /\ isInitializeRequest(parsedBody.value)
        credentials == readJiraCredentials(request)
        Error(status, code, message) ==
            [kind |-> "error", response |-> createJsonRpcError(status, code, message)]
    IN IF signingSecret = Absent
       THEN Error(500, -32603, "Server misconfigured: missing internal signing secret")
       ELSE IF ~verifyWorkerToDoRequestSignature(request, signingSecret, t)
       THEN Error(401, -32002, "Unauthorized request")
       ELSE IF parsedBody.invalidJson
       THEN Error(400, -32700, "Parse error: request body must be valid JSON")
       ELSE IF found
       THEN IF ownershipError(table[sessionId], authUserId, authTokenId, authWorkspaceId) # Absent
            THEN Error(403, -32003,
                       ownershipError(table[sessionId], authUserId, authTokenId, authWorkspaceId))
            ELSE [kind |-> "delegate", sessionId |-> sessionId]
       ELSE IF sessionId # Absent
       THEN Error(404, -32001, "Unknown or expired session ID. Re-run initialize to create a new session.")
       ELSE IF ~isInit
       THEN Error(400, -32000, "Bad Request: Send initialize first or include a valid MCP-Session-Id header.")
       ELSE IF credentials = None
       THEN Error(400, -32000, "Missing Jira credentials. Provide X-Jira-Base-Url, X-Jira-Username, and X-Jira-Api-Token.")
       ELSE [kind |-> "create",
             entry |-> [credentials |-> credentials, authUserId |-> authUserId,
                        authTokenId |-> authTokenId, authWorkspaceId |-> authWorkspaceId]]

\* ------------------------------------------------------------------------
\* /mcp requests: from the Edge Router's dispatch to the Session Actor
\* ------------------------------------------------------------------------
SidPool == <<"sid-1", "sid-2", "sid-3">>
Partitions ==
    {SESSION_HUB_NAME} \cup {"jira-workspace:" \o WorkspaceIdPool[i] : i \in 1..Len(WorkspaceIdPool)}

McpIdle == [pc |-> "idle"]

textResponse(status, text) == [kind |-> "response", status |-> status, payload |-> text]

\* new URL(origin): protocol and hostname of the origins drawn; [ok |-> FALSE]
\* stands for the TypeError of a string that is no URL.  The parser lowers the
\* case of the host and splits off port and user info.
ParseOrigin(origin) ==
    CASE origin = "http://localhost:5173" -> [ok |-> TRUE, protocol |-> "http:", hostname |-> "localhost"]
      [] origin = "https://127.0.0.1" -> [ok |-> TRUE, protocol |-> "https:", hostname |-> "127.0.0.1"]
      [] origin = "http://LOCALHOST" -> [ok |-> TRUE, protocol |-> "http:", hostname |-> "localhost"]
      [] origin = "https://evil.example" -> [ok |-> TRUE, protocol |-> "https:", hostname |-> "evil.example"]
      [] origin = "http://localhost.evil.example" ->
             [ok |-> TRUE, protocol |-> "http:", hostname |-> "localhost.evil.example"]
      [] origin = "ftp://localhost" -> [ok |-> TRUE, protocol |-> "ftp:", hostname |-> "localhost"]
      [] OTHER -> [ok |-> FALSE]

\* An origin test that looks at the protocol only.
isAllowedCorsOrigin_AnyHost(origin) ==
    LET parsed == ParseOrigin(origin) IN
    IF ~parsed.ok THEN FALSE
    ELSE parsed.protocol \in {"http:", "https:"}

isAllowedCorsOrigin(origin) ==
    LET parsed == ParseOrigin(origin) IN
    IF ~parsed.ok THEN FALSE
    ELSE IF parsed.protocol \notin {"http:", "https:"} THEN FALSE
    ELSE parsed.hostname = "localhost" \/ parsed.hostname = "127.0.0.1"

DEFAULT_CORS_HEADERS ==
    "authorization,content-type,x-jira-base-url,x-jira-username,x-jira-api-token,mcp-session-id,mcp-protocol-version"

\* The headers of a response of the model: those it was built with, if any.
ResponseHeaders(response) ==
    IF "headers" \in DOMAIN response THEN response.headers ELSE <<>>

\* Headers.append on a header that may be there already.
HeaderAppend(headers, name, value) ==
    IF name \in DOMAIN headers THEN (name :> (headers[name] \o ", " \o value)) @@ headers
    ELSE (name :> value) @@ headers

withCorsHeaders(request, response) ==
    LET origin == IF "origin" \in DOMAIN request.headers THEN request.headers["origin"] ELSE Absent
        requested == IF "access-control-request-headers" \in DOMAIN request.headers
                     THEN request.headers["access-control-request-headers"] ELSE Absent
    IN IF origin = Absent \/ origin = "" \/ ~isAllowedCorsOrigin(origin)
       THEN response
       ELSE [headers |->
                HeaderAppend(
                    ("access-control-allow-origin" :> origin)
                    @@ ("access-control-allow-credentials" :> "true")
                    @@ ("access-control-allow-methods" :> "GET,POST,OPTIONS")
                    @@ ("access-control-allow-headers" :>
                           IF requested = Absent \/ requested = "" THEN DEFAULT_CORS_HEADERS
                           ELSE requested)
                    @@ ("access-control-expose-headers" :> "mcp-session-id")
                    @@ ResponseHeaders(response),
                    "vary", "Origin")]
            @@ response

createCorsPreflightResponse(request) ==
    withCorsHeaders(request, [kind |-> "response", status |-> 204, payload |-> Absent])

\* A response is handed back before anything else happens.
McpQuiet == \A m \in Slots : mcp[m].pc # "done"
McpFree(m) == McpQuiet /\ mcp[m] = McpIdle /\ \A m2 \in Slots : m2 < m => mcp[m2] # McpIdle
SetMcp(m, q) == mcp' = [mcp EXCEPT ![m] = q]

\* The request as the client sent it, as the router signed it and as the actor
\* received it, how far it got, and the response; `arrival` is the history of
\* what held when the request reached the router.
McpDone(q, outcome, resp) ==
    [pc |-> "done", client |-> q.client, arrival |-> q.arrival,
     partition |-> q.partition, signed |-> q.signed,
     request |-> q.request, tampered |-> q.tampered, replayed |-> q.replayed,
     outcome |-> outcome, resp |-> withCorsHeaders(q.client, resp)]

\* The router returns `resp` for a request it does not dispatch.
RouterAnswer(client, arrival, resp) ==
    [pc |-> "done", client |-> client, arrival |-> arrival,
     partition |-> Absent, signed |-> None,
     request |-> None, tampered |-> "none", replayed |-> FALSE,
     outcome |-> "router", resp |-> resp]

\* return withCorsHeaders(request, new Response(...)) for a request the
\* router does not dispatch.
RouterDone(client, arrival, resp) ==
    RouterAnswer(client, arrival, withCorsHeaders(client, resp))

\* A dispatch that signs the client's request and attaches the headers after.
Dispatch_SignThenAttach(client, arrival, context, workspaceCredentials) ==
    LET signingSecret == resolveInternalSigningSecret(env)
    IN IF signingSecret = Absent
       THEN RouterDone(client, arrival,
                       textResponse(500, "Server misconfigured: missing internal signing secret"))
       ELSE [pc |-> "m_actor", client |-> client, arrival |-> arrival,
             partition |-> getSessionHubName(context),
             signed |-> attachAuthHeaders(signWorkerToDoRequest(client, signingSecret, DateNow),
                                          context, workspaceCredentials),
             request |-> attachAuthHeaders(signWorkerToDoRequest(client, signingSecret, DateNow),
                                           context, workspaceCredentials),
             tampered |-> "none", replayed |-> FALSE]

\* fetch, from attachAuthHeaders to stub.fetch: the request on its way to the
\* actor of its partition, or the 500 of a router without signing secret.
Dispatch(client, arrival, context, workspaceCredentials) ==
    LET requestWithAuthHeaders == attachAuthHeaders(client, context, workspaceCredentials)
        signingSecret == resolveInternalSigningSecret(env)
    IN IF signingSecret = Absent
       THEN RouterDone(client, arrival,
                       textResponse(500, "Server misconfigured: missing internal signing secret"))
       ELSE [pc |-> "m_actor", client |-> client, arrival |-> arrival,
             partition |-> getSessionHubName(context),
             signed |-> signWorkerToDoRequest(requestWithAuthHeaders, signingSecret, DateNow),
             request |-> signWorkerToDoRequest(requestWithAuthHeaders, signingSecret, DateNow),
             tampered |-> "none", replayed |-> FALSE]

ActorTable_Shared(p) ==
    [sid \in UNION {DOMAIN sessions[x] : x \in Partitions} |->
        sessions[CHOOSE x \in Partitions : sid \in DOMAIN sessions[x]][sid]]

\* The table of the actor instance that serves partition p.
ActorTable(p) ==
    sessions[p]

\* The Durable Object's fetch: the path test, then handleMcpRequest.  An error
\* is the response; a delegated request is answered by the session's
\* transport; a handshake goes on to await server.connect(transport).
ActorHandle(m) ==
    /\ McpQuiet
    /\ mcp[m].pc = "m_actor"
    /\ LET q == mcp[m]
           out == handleMcpRequest(env, ActorTable(q.partition), q.request, DateNow)
       IN SetMcp(m, IF q.request.pathname # "/mcp"
                    THEN McpDone(q, "error", textResponse(404, "Not Found"))
                    ELSE IF out.kind = "error"
                    THEN McpDone(q, "error", out.response)
                    ELSE IF out.kind = "delegate"
                    THEN McpDone(q, "delegate",
                                 [kind |-> "transport", status |-> 200, sessionId |-> out.sessionId])
                    ELSE [pc |-> "m_connect", client |-> q.client, arrival |-> q.arrival,
                          partition |-> q.partition,
                          signed |-> q.signed, request |-> q.request, tampered |-> q.tampered,
                          replayed |-> q.replayed, entry |-> out.entry])
    /\ UNCHANGED <<env, now, users, tokens, workspaces, wsCreated, reqs, deletions>>
    /\ UNCHANGED <<sessions, sidCreated>>

\* A sessionIdGenerator that hands out the same id again.
HandshakeComplete_ReusesId(m, cap) ==
    /\ McpQuiet
    /\ mcp[m].pc = "m_connect"
    /\ sidCreated < cap
    /\ LET q == mcp[m]
           sid == SidPool[1]
       IN /\ sessions' = [sessions EXCEPT ![q.partition] = Extend(@, sid, q.entry)]
          /\ sidCreated' = sidCreated + 1
          /\ SetMcp(m, McpDone(q, "create",
                               [kind |-> "transport", status |-> 200, sessionId |-> sid]))
    /\ UNCHANGED <<env, now, users, tokens, workspaces, wsCreated, reqs, deletions>>

\* An onsessioninitialized that stores what the handshake that last reached
\* server creation in the partition left in a field of the actor, not what
\* its own closure captured.
HandshakeComplete_SharedPending(m, cap) ==
    /\ McpQuiet
    /\ mcp[m].pc = "m_connect"
    /\ sidCreated < cap
    /\ LET q == mcp[m]
           sid == SidPool[sidCreated + 1]
           last == CHOOSE m2 \in Slots :
                      /\ mcp[m2].pc = "m_connect" /\ mcp[m2].partition = q.partition
                      /\ \A m3 \in Slots :
                            (mcp[m3].pc = "m_connect" /\ mcp[m3].partition = q.partition) => m3 <= m2
       IN /\ sessions' = [sessions EXCEPT ![q.partition] = Extend(@, sid, mcp[last].entry)]
          /\ sidCreated' = sidCreated + 1
          /\ SetMcp(m, McpDone(q, "create",
                               [kind |-> "transport", status |-> 200, sessionId |-> sid]))
    /\ UNCHANGED <<env, now, users, tokens, workspaces, wsCreated, reqs, deletions>>

\* transport.handleRequest on the initialize call: sessionIdGenerator draws the
\* id, onsessioninitialized stores the entry under it.
HandshakeComplete(m, cap) ==
    /\ McpQuiet
    /\ mcp[m].pc = "m_connect"
    /\ sidCreated < cap
    /\ LET q == mcp[m]
           sid == SidPool[sidCreated + 1]
       IN /\ sessions' = [sessions EXCEPT ![q.partition] = Extend(@, sid, q.entry)]
          /\ sidCreated' = sidCreated + 1
          /\ SetMcp(m, McpDone(q, "create",
                               [kind |-> "transport", status |-> 200, sessionId |-> sid]))
    /\ UNCHANGED <<env, now, users, tokens, workspaces, wsCreated, reqs, deletions>>

\* onsessionclosed / transport.onclose: the entry is deleted.
TransportClose(p, sid) ==
    /\ McpQuiet
    /\ sid \in DOMAIN sessions[p]
    /\ sessions' = [sessions EXCEPT ![p] = Remove(@, {sid})]
    /\ UNCHANGED <<env, now, users, tokens, workspaces, wsCreated, reqs, deletions>>
    /\ UNCHANGED <<sidCreated, mcp>>

\* The actor instance of partition p is evicted: its memory and the requests
\* it was serving are gone.
ActorRestart(p) ==
    /\ McpQuiet
    /\ sessions[p] # EmptyTable \/ \E m \in Slots : mcp[m].pc = "m_connect" /\ mcp[m].partition = p
    /\ sessions' = [sessions EXCEPT ![p] = EmptyTable]
    /\ mcp' = [m \in Slots |-> IF mcp[m].pc = "m_connect" /\ mcp[m].partition = p
                               THEN McpIdle ELSE mcp[m]]
    /\ UNCHANGED <<env, now, users, tokens, workspaces, wsCreated, reqs, deletions>>
    /\ UNCHANGED sidCreated

\* The response has been sent.
ReapMcp(m) ==
    /\ mcp[m].pc = "done"
    /\ SetMcp(m, McpIdle)
    /\ UNCHANGED <<env, now, users, tokens, workspaces, wsCreated, reqs, deletions>>
    /\ UNCHANGED <<sessions, sidCreated>>

\* ------------------------------------------------------------------------
\* Inputs drawn for /mcp
\* ------------------------------------------------------------------------
StaticSecret == "static-secret-1"
SigningSecret == "signing-secret-1"

\* The deployments: an explicit signing secret, the signing secret falling back
\* to the first static secret of MCP_AUTH_TOKENS, and no secret at all.
GatewayEnvs ==
    { [AUTH_DB |-> TRUE, JIRA_WORKSPACE_ENCRYPTION_KEY |-> LongWorkspaceSecret,
       MCP_INTERNAL_SIGNING_SECRET |-> SigningSecret, BETTER_AUTH_SECRET |-> Absent,
       MCP_AUTH_TOKEN |-> StaticSecret, MCP_AUTH_TOKENS |-> <<>>],
      [AUTH_DB |-> TRUE, JIRA_WORKSPACE_ENCRYPTION_KEY |-> LongWorkspaceSecret,
       MCP_INTERNAL_SIGNING_SECRET |-> Absent, BETTER_AUTH_SECRET |-> Absent,
       MCP_AUTH_TOKEN |-> Absent, MCP_AUTH_TOKENS |-> <<" ", StaticSecret>>],
      [AUTH_DB |-> TRUE, JIRA_WORKSPACE_ENCRYPTION_KEY |-> LongWorkspaceSecret,
       MCP_INTERNAL_SIGNING_SECRET |-> Absent, BETTER_AUTH_SECRET |-> Absent,
       MCP_AUTH_TOKEN |-> Absent, MCP_AUTH_TOKENS |-> <<>>] }

\* What authorizeRequest returns for the callers drawn: the static caller, a
\* user with an unscoped token, the same user with a token scoped to w1, and
\* another user.
StaticContext == [kind |-> "static", token |-> StaticSecret]
UserContexts ==
    { UserAuthContext([tokenId |-> "t1", userId |-> "u1", workspaceId |-> Absent, email |-> "a@x.io"]),
      UserAuthContext([tokenId |-> "t2", userId |-> "u1", workspaceId |-> "w1", email |-> "a@x.io"]),
      UserAuthContext([tokenId |-> "t3", userId |-> "ba1", workspaceId |-> Absent, email |-> "b@x.io"]) }
ForwardContexts == {StaticContext} \cup UserContexts

\* What getWorkspaceCredentialsForUser returns for workspace w1.
VaultCredentials ==
    [workspaceId |-> "w1", workspaceName |-> "ws-A", jiraBaseUrl |-> "https://jira.example",
     jiraUsername |-> "a@x.io", jiraApiToken |-> "jira-api-token-1"]

ContextCredentials(context) ==
    IF context.kind = "user" /\ context.workspaceId # Absent THEN VaultCredentials ELSE None

\* The bearer credential of each caller drawn.
ContextBearer(context) ==
    IF context.kind = "static" THEN context.token
    ELSE CASE context.tokenId = "t1" -> SecretPool[1]
           [] context.tokenId = "t2" -> SecretPool[2]
           [] OTHER -> SecretPool[3]

NoFields == EmptyTable
ClientCredentialHeaders ==
    ("x-jira-base-url" :> "https://client.example") @@ ("x-jira-username" :> "c@x.io")
    @@ ("x-jira-api-token" :> "client-api-token")
ClientCredentialQuery ==
    ("jiraBaseUrl" :> "https://client.example") @@ ("jiraUsername" :> "c@x.io")
    @@ ("jiraApiToken" :> "client-api-token")
SpoofedIdentity ==
    ("x-auth-user-id" :> "u1") @@ ("x-auth-user-email" :> "a@x.io") @@ ("x-auth-token-id" :> "t1")
SpoofedUserOnly == ("x-auth-user-id" :> "u1")
SpoofedWorkspace == ("x-auth-workspace-id" :> "w1")

ClientRequest(method, body, search, headers) ==
    [method |-> method, pathname |-> "/mcp", search |-> search, headers |-> headers, body |-> body]

WithBearer(client, token) ==
    [client EXCEPT !.headers = HeaderSet(@, "authorization", <<"Bearer", token>>)]

\* The ways a client can carry session id `sid`.
Carriers(sid) ==
    { [headers |-> ("mcp-session-id" :> sid), search |-> NoFields],
      [headers |-> ("x-mcp-session-id" :> sid), search |-> NoFields],
      [headers |-> NoFields, search |-> ("sessionId" :> sid)],
      [headers |-> ("mcp-session-id" :> "") @@ ("x-mcp-session-id" :> sid), search |-> NoFields] }

KnownSids == {SidPool[i] : i \in 1..sidCreated} \cup {"sid-unknown"}

Handshakes ==
    { ClientRequest(k[1], k[2], c[2], c[1] @@ spoof) :
        k \in {<<"POST", InitializeBody>>, <<"POST", CallBody>>, <<"POST", BrokenBody>>, <<"GET", "">>},
        c \in {<<NoFields, NoFields>>, <<ClientCredentialHeaders, NoFields>>,
               <<NoFields, ClientCredentialQuery>>},
        spoof \in {NoFields, SpoofedIdentity, SpoofedWorkspace} }

SessionRequests ==
    { ClientRequest("POST", CallBody, c.search, c.headers @@ spoof) :
        c \in UNION {Carriers(sid) : sid \in KnownSids},
        spoof \in {NoFields, SpoofedIdentity, SpoofedUserOnly, SpoofedWorkspace} }
    \cup { ClientRequest("POST", body, NoFields,
                          ("mcp-session-id" :> sid) @@ ClientCredentialHeaders) :
             body \in {InitializeBody, BrokenBody}, sid \in KnownSids }

ActorRequests == Handshakes \cup SessionRequests

NoArrival == [revoked |-> FALSE]

\* The router forwards the request of a caller it has authenticated.
RouterForward(m, contexts, requests) ==
    \E context \in contexts, client \in requests :
        /\ McpFree(m)
        /\ SetMcp(m, Dispatch(WithBearer(client, ContextBearer(context)), NoArrival, context,
                              ContextCredentials(context)))
        /\ UNCHANGED <<env, now, users, tokens, workspaces, wsCreated, reqs, deletions>>
        /\ UNCHANGED <<sessions, sidCreated>>

\* ------------------------------------------------------------------------
\* The Session Actors under the requests the router forwards
\* ------------------------------------------------------------------------
MaxSessions == 2

ActorInit ==
    /\ env \in GatewayEnvs
    /\ now = 0
    /\ users = EmptyTable
    /\ tokens = EmptyTable
    /\ workspaces = EmptyTable
    /\ wsCreated = 0
    /\ reqs = [r \in Slots |-> Idle]
    /\ deletions = EmptyTable
    /\ sessions = [p \in Partitions |-> EmptyTable]
    /\ sidCreated = 0
    /\ mcp = [m \in Slots |-> McpIdle]

ActorNext ==
    \/ RouterForward(1, ForwardContexts, ActorRequests)
    \/ ActorHandle(1)
    \/ HandshakeComplete(1, MaxSessions)
    \/ \E p \in Partitions : \E sid \in DOMAIN sessions[p] : TransportClose(p, sid)
    \/ \E p \in Partitions : ActorRestart(p)
    \/ ReapMcp(1)

ActorSpec == ActorInit /\ [][ActorNext]_vars

\* ------------------------------------------------------------------------
\* Requests without a session id: handshakes and what is not one
\* ------------------------------------------------------------------------
\* The ways a client can carry backend credentials, whole or in part: none,
\* all by header, all by query, some by header and the rest by query, two of
\* three, and a blank header next to a query parameter.
CredentialCarriers ==
    { [headers |-> NoFields, search |-> NoFields],
      [headers |-> ClientCredentialHeaders, search |-> NoFields],
      [headers |-> NoFields, search |-> ClientCredentialQuery],
      [headers |-> ("x-jira-base-url" :> "https://client.example")
                   @@ ("x-jira-api-token" :> "client-api-token"),
       search |-> ("jiraUsername" :> "c@x.io")],
      [headers |-> ("x-jira-base-url" :> "https://client.example")
                   @@ ("x-jira-username" :> "c@x.io"),
       search |-> NoFields],
      [headers |-> ("x-jira-base-url" :> " ") @@ ("x-jira-username" :> "c@x.io")
                   @@ ("x-jira-api-token" :> "client-api-token"),
       search |-> ("jiraBaseUrl" :> "https://client.example")],
      [headers |-> ("x-jira-base-url" :> "https://client.example")
                   @@ ("x-jira-username" :> "c@x.io") @@ ("x-jira-api-token" :> " "),
       search |-> ("jiraApiToken" :> " ")] }

HandshakeRequests ==
    { ClientRequest(k[1], k[2], c.search, c.headers) :
        k \in {<<"POST", InitializeBody>>, <<"POST", CallBody>>, <<"POST", BrokenBody>>, <<"GET", "">>},
        c \in CredentialCarriers }
    \cup { ClientRequest("POST", InitializeBody, NoFields,
                         ("mcp-session-id" :> sid) @@ ClientCredentialHeaders) :
             sid \in {"", "sid-unknown"} }

HandshakeNext ==
    \/ RouterForward(1, ForwardContexts, HandshakeRequests)
    \/ ActorHandle(1)
    \/ HandshakeComplete(1, MaxSessions)
    \/ \E p \in Partitions : \E sid \in DOMAIN sessions[p] : TransportClose(p, sid)
    \/ \E p \in Partitions : ActorRestart(p)
    \/ ReapMcp(1)

HandshakeSpec == ActorInit /\ [][HandshakeNext]_vars

\* ------------------------------------------------------------------------
\* Handshakes that interleave at their await points
\* ------------------------------------------------------------------------
ConcurrentSessions == 2

OtherCredentialQuery ==
    ("jiraBaseUrl" :> "https://other.example") @@ ("jiraUsername" :> "d@x.io")
    @@ ("jiraApiToken" :> "other-api-token")

ConcurrentRequests ==
    { ClientRequest("POST", InitializeBody, NoFields, ClientCredentialHeaders),
      ClientRequest("POST", InitializeBody, OtherCredentialQuery, NoFields),
      ClientRequest("POST", CallBody, NoFields, ClientCredentialHeaders) }

ConcurrentInit ==
    /\ env \in {e \in GatewayEnvs : e.MCP_INTERNAL_SIGNING_SECRET # Absent}
    /\ now = 0
    /\ users = EmptyTable
    /\ tokens = EmptyTable
    /\ workspaces = EmptyTable
    /\ wsCreated = 0
    /\ reqs = [r \in Slots |-> Idle]
    /\ deletions = EmptyTable
    /\ sessions = [p \in Partitions |-> EmptyTable]
    /\ sidCreated = 0
    /\ mcp = [m \in Slots |-> McpIdle]

ConcurrentNext ==
    \/ \E m \in Slots : RouterForward(m, ForwardContexts, ConcurrentRequests)
    \/ \E m \in Slots : ActorHandle(m)
    \/ \E m \in Slots : HandshakeComplete(m, ConcurrentSessions)
    \/ \E p \in Partitions : \E sid \in DOMAIN sessions[p] : TransportClose(p, sid)
    \/ \E p \in Partitions : ActorRestart(p)
    \/ \E m \in Slots : ReapMcp(m)

ConcurrentSpec == ConcurrentInit /\ [][ConcurrentNext]_vars

\* ------------------------------------------------------------------------
\* The signature between router and actor: tampering, clocks and replays
\* ------------------------------------------------------------------------
MaxMinutes == 3
SignSessions == 1

\* The fields createInternalSignature puts under the signature.
SignedHeaders ==
    {"x-auth-user-id", "x-auth-user-email", "x-auth-token-id", "x-auth-workspace-id",
     "x-jira-base-url", "x-jira-username", "x-jira-api-token"}
SignedFields ==
    {"method", "path", "query", "session id", "timestamp", "version", "body"} \cup SignedHeaders

WithHeader(request, name, value) == [request EXCEPT !.headers = HeaderSet(@, name, value)]
WithoutHeader(request, name) == [request EXCEPT !.headers = Remove(@, {name})]

\* One change to a signed request on its way to the actor: of each signed
\* field, of the signature, and of headers that are not signed by name.
Tamperings(request) ==
    {[field |-> "method",
      request |-> [request EXCEPT !.method = IF @ = "POST" THEN "GET" ELSE "POST"]],
     [field |-> "path", request |-> [request EXCEPT !.pathname = "/mcp/other"]],
     [field |-> "query",
      request |-> [request EXCEPT !.search = HeaderSet(@, "jiraBaseUrl", "https://evil.example")]],
     [field |-> "session id", request |-> WithHeader(request, "mcp-session-id", "sid-evil")],
     [field |-> "version", request |-> WithHeader(request, INTERNAL_VERSION_HEADER, "v2")],
     [field |-> "body",
      request |-> [request EXCEPT !.body = IF @ = CallBody THEN InitializeBody ELSE CallBody]],
     [field |-> "signature",
      request |-> WithHeader(request, INTERNAL_SIGNATURE_HEADER, <<"hmac", "forged", <<>>>>)],
     [field |-> "authorization",
      request |-> WithHeader(request, "authorization", <<"Bearer", "evil">>)]}
    \cup {[field |-> h, request |-> WithHeader(request, h, "evil")] : h \in SignedHeaders}
    \cup {[field |-> "timestamp",
           request |-> WithHeader(request, INTERNAL_TIMESTAMP_HEADER, ToText(DateNow))] :
            x \in {y \in {1} : Get(request.headers, INTERNAL_TIMESTAMP_HEADER) # ToText(DateNow)}}
    \cup {[field |-> "mcp-session-id added blank",
           request |-> WithHeader(request, "mcp-session-id", "")] :
            x \in {y \in {1} : "mcp-session-id" \notin DOMAIN request.headers}}
    \cup {[field |-> "mcp-session-id blank removed",
           request |-> WithoutHeader(request, "mcp-session-id")] :
            x \in {y \in {1} : Get(request.headers, "mcp-session-id") = ""}}
    \cup {[field |-> "x-mcp-session-id shadowed",
           request |-> WithHeader(request, "x-mcp-session-id", "sid-evil")] :
            x \in {y \in {1} : Trim(Get(request.headers, "mcp-session-id")) # ""}}

\* The forwarded request is changed between stub.fetch and the actor's fetch.
Tamper(m) ==
    /\ McpQuiet
    /\ mcp[m].pc = "m_actor"
    /\ mcp[m].tampered = "none"
    /\ \E t \in Tamperings(mcp[m].request) :
           SetMcp(m, [mcp[m] EXCEPT !.request = t.request, !.tampered = t.field])
    /\ UNCHANGED <<env, users, tokens, workspaces, wsCreated, reqs, deletions, now>>
    /\ UNCHANGED <<sessions, sidCreated>>

\* Date.now() moves, forward or (the actor's clock against the router's) back,
\* by minutes: not within the milliseconds of a handshake.
ClockStep ==
    /\ McpQuiet
    /\ \A m \in Slots : mcp[m].pc # "m_connect"
    /\ \E d \in {60, 0 - 60} :
           /\ now + d \in 0..(MaxMinutes * 60)
           /\ now' = now + d
    /\ UNCHANGED <<env, users, tokens, workspaces, wsCreated, reqs, deletions>>
    /\ UNCHANGED gatewayVars

\* A request the actor has answered is delivered to it again, as it was.
Replay(m) ==
    /\ mcp[m].pc = "done"
    /\ mcp[m].outcome # "router"
    /\ SetMcp(m, [pc |-> "m_actor", client |-> mcp[m].client, arrival |-> mcp[m].arrival,
                  partition |-> mcp[m].partition,
                  signed |-> mcp[m].signed, request |-> mcp[m].request,
                  tampered |-> mcp[m].tampered, replayed |-> TRUE])
    /\ UNCHANGED <<env, now, users, tokens, workspaces, wsCreated, reqs, deletions>>
    /\ UNCHANGED <<sessions, sidCreated>>

SignContexts ==
    {StaticContext,
     UserAuthContext([tokenId |-> "t2", userId |-> "u1", workspaceId |-> "w1", email |-> "a@x.io"])}

SignRequests ==
    {ClientRequest("POST", InitializeBody, NoFields, ClientCredentialHeaders)}
    \cup {ClientRequest("POST", CallBody, c.search, c.headers) :
            c \in UNION {Carriers(sid) : sid \in KnownSids}}

SignInit ==
    /\ env \in {e \in GatewayEnvs : e.MCP_INTERNAL_SIGNING_SECRET # Absent}
    /\ now = 0
    /\ users = EmptyTable
    /\ tokens = EmptyTable
    /\ workspaces = EmptyTable
    /\ wsCreated = 0
    /\ reqs = [r \in Slots |-> Idle]
    /\ deletions = EmptyTable
    /\ sessions = [p \in Partitions |-> EmptyTable]
    /\ sidCreated = 0
    /\ mcp = [m \in Slots |-> McpIdle]

SignNext ==
    \/ RouterForward(1, SignContexts, SignRequests)
    \/ Tamper(1)
    \/ ClockStep
    \/ ActorHandle(1)
    \/ HandshakeComplete(1, SignSessions)
    \/ \E p \in Partitions : ActorRestart(p)
    \/ Replay(1)
    \/ ReapMcp(1)

SignSpec == SignInit /\ [][SignNext]_vars

\* ------------------------------------------------------------------------
\* The actor under requests that fail several of its checks
\* ------------------------------------------------------------------------
OrderSessions == 1

\* Every body, with or without credentials, without session id or with a
\* known or unknown one.
OrderRequests ==
    { ClientRequest(k[1], k[2], NoFields, sid @@ c) :
        k \in {<<"POST", InitializeBody>>, <<"POST", CallBody>>, <<"POST", BrokenBody>>, <<"GET", "">>},
        sid \in {NoFields} \cup {("mcp-session-id" :> id) : id \in KnownSids},
        c \in {NoFields, ClientCredentialHeaders} }

OrderContexts ==
    {StaticContext,
     UserAuthContext([tokenId |-> "t1", userId |-> "u1", workspaceId |-> Absent, email |-> "a@x.io"]),
     UserAuthContext([tokenId |-> "t3", userId |-> "ba1", workspaceId |-> Absent, email |-> "b@x.io"])}

\* The actor instance sees a deployment without any secret to verify with
\* while requests signed under the previous one are on their way.
SecretRemoved ==
    /\ McpQuiet
    /\ resolveInternalSigningSecret(env) # Absent
    /\ \E m \in Slots : mcp[m].pc = "m_actor"
    /\ env' = [env EXCEPT !.MCP_INTERNAL_SIGNING_SECRET = Absent, !.BETTER_AUTH_SECRET = Absent,
                          !.MCP_AUTH_TOKEN = Absent, !.MCP_AUTH_TOKENS = <<>>]
    /\ UNCHANGED <<now, users, tokens, workspaces, wsCreated, reqs, deletions>>
    /\ UNCHANGED gatewayVars

OrderNext ==
    \/ RouterForward(1, OrderContexts, OrderRequests)
    \/ ClockStep
    \/ SecretRemoved
    \/ ActorHandle(1)
    \/ HandshakeComplete(1, OrderSessions)
    \/ \E p \in Partitions : ActorRestart(p)
    \/ ReapMcp(1)

OrderSpec == SignInit /\ [][OrderNext]_vars

\* ------------------------------------------------------------------------
\* The Edge Router's fetch on /mcp, in front of the vault
\* ------------------------------------------------------------------------
GatewaySessions == 1

\* authorizeRequest: the pairs <<context, api_tokens>> it may leave.
authorizeRequest(request, authTokens, t) ==
    LET token == RequestBearerToken(request) IN
    IF token = Absent THEN {<<None, tokens>>}
    ELSE IF token \in authTokens THEN {<<[kind |-> "static", token |-> token], tokens>>}
    ELSE validateUserToken(token, t)

\* A lookup that selects the workspace row by id alone.
SelectWorkspaceCredentials_AnyOwner(userId, workspaceId) ==
    LET key == getWorkspaceCryptoKey(env.JIRA_WORKSPACE_ENCRYPTION_KEY) IN
    IF ~env.AUTH_DB THEN None
    ELSE IF ~(workspaceId \in DOMAIN workspaces)
    THEN None
    ELSE IF key = NoKey THEN None
    ELSE LET workspace == workspaces[workspaceId]
             jiraApiToken == decryptSecret(key, workspace.jiraApiTokenCiphertext,
                                           workspace.jiraApiTokenIv)
         IN IF ~jiraApiToken.ok \/ jiraApiToken.plainText = "" THEN None
            ELSE [workspaceId |-> workspaceId, workspaceName |-> workspace.workspaceName,
                  jiraBaseUrl |-> workspace.jiraBaseUrl, jiraUsername |-> workspace.jiraUsername,
                  jiraApiToken |-> jiraApiToken.plainText]

\* getWorkspaceCredentialsForUser up to its UPDATE: the SELECT of the
\* caller's workspace row, the key, the decryption.
SelectWorkspaceCredentials(userId, workspaceId) ==
    LET key == getWorkspaceCryptoKey(env.JIRA_WORKSPACE_ENCRYPTION_KEY) IN
    IF ~env.AUTH_DB THEN None
    ELSE IF ~(workspaceId \in DOMAIN workspaces /\ workspaces[workspaceId].userId = userId)
    THEN None
    ELSE IF key = NoKey THEN None
    ELSE LET workspace == workspaces[workspaceId]
             jiraApiToken == decryptSecret(key, workspace.jiraApiTokenCiphertext,
                                           workspace.jiraApiTokenIv)
         IN IF ~jiraApiToken.ok \/ jiraApiToken.plainText = "" THEN None
            ELSE [workspaceId |-> workspaceId, workspaceName |-> workspace.workspaceName,
                  jiraBaseUrl |-> workspace.jiraBaseUrl, jiraUsername |-> workspace.jiraUsername,
                  jiraApiToken |-> jiraApiToken.plainText]

\* getWorkspaceCredentialsForUser's UPDATE jira_workspaces SET last_used_at.
TouchWorkspace(userId, workspaceId, t) ==
    [w \in DOMAIN workspaces |->
        IF w = workspaceId /\ workspaces[w].userId = userId
        THEN [workspaces[w] EXCEPT !.lastUsedAt = t]
        ELSE workspaces[w]]

\* The bearer credential the request presents was revoked before it arrived.
PresentsRevoked(client) ==
    \E id \in DOMAIN tokens :
        /\ RequestBearerToken(client) # Absent
        /\ tokens[id].tokenHash = hashToken(RequestBearerToken(client))
        /\ tokens[id].revokedAt # NoTime

GatewayBearers == {StaticSecret} \cup PresentedSecrets
GatewayRequests ==
    {ClientRequest("POST", InitializeBody, NoFields, ClientCredentialHeaders @@ spoof) :
        spoof \in {NoFields, SpoofedIdentity, SpoofedWorkspace}}
    \cup {ClientRequest("POST", CallBody, NoFields, ("mcp-session-id" :> sid) @@ spoof) :
            sid \in KnownSids, spoof \in {NoFields, SpoofedIdentity}}

\* fetch up to authorizeRequest: the preflight answer, /health, the 404 of
\* another path; for /mcp, without static secrets and without database the
\* router is misconfigured.
RouterReceive(m, requests) ==
    \E client \in requests :
        /\ McpFree(m)
        /\ SetMcp(m, IF client.method = "OPTIONS" /\ "origin" \in DOMAIN client.headers
                     THEN RouterAnswer(client, [revoked |-> PresentsRevoked(client)],
                                       createCorsPreflightResponse(client))
                     ELSE IF client.pathname = "/health"
                     THEN RouterDone(client, [revoked |-> PresentsRevoked(client)],
                                     textResponse(200, "ok"))
                     ELSE IF client.pathname # "/mcp"
                     THEN RouterDone(client, [revoked |-> PresentsRevoked(client)],
                                     textResponse(404, "Not Found"))
                     ELSE IF parseAuthTokens(env.MCP_AUTH_TOKEN, env.MCP_AUTH_TOKENS) = {} /\ ~env.AUTH_DB
                     THEN RouterDone(client, [revoked |-> PresentsRevoked(client)],
                                     textResponse(500, "Server misconfigured: missing MCP auth token"))
                     ELSE [pc |-> "m_auth", client |-> client,
                           arrival |-> [revoked |-> PresentsRevoked(client)]])
        /\ UNCHANGED <<env, now, users, tokens, workspaces, wsCreated, reqs, deletions>>
        /\ UNCHANGED <<sessions, sidCreated>>

RouterArrive(m) ==
    RouterReceive(m, GatewayRequests
                     \cup {WithBearer(c, b) : c \in GatewayRequests, b \in GatewayBearers})

\* fetch from authorizeRequest to its next await: 401, the lookup of the
\* workspace credentials, or the dispatch to the actor.
RouterAuthorize(m) ==
    /\ McpQuiet
    /\ mcp[m].pc = "m_auth"
    /\ LET q == mcp[m] IN
       \E out \in authorizeRequest(q.client,
                                   parseAuthTokens(env.MCP_AUTH_TOKEN, env.MCP_AUTH_TOKENS), now) :
           /\ tokens' = out[2]
           /\ SetMcp(m, IF out[1] = None
                        THEN RouterDone(q.client, q.arrival, textResponse(401, "Unauthorized"))
                        ELSE IF out[1].kind = "user" /\ out[1].workspaceId # Absent
                        THEN [pc |-> "m_creds", client |-> q.client, arrival |-> q.arrival,
                              context |-> out[1]]
                        ELSE Dispatch(q.client, q.arrival, out[1], None))
    /\ UNCHANGED <<env, now, users, workspaces, wsCreated, reqs, deletions>>
    /\ UNCHANGED <<sessions, sidCreated>>

\* getWorkspaceCredentialsForUser: the SELECT and the decryption.
RouterWorkspaceSelect(m) ==
    /\ McpQuiet
    /\ mcp[m].pc = "m_creds"
    /\ LET q == mcp[m]
           credentials == SelectWorkspaceCredentials(q.context.userId, q.context.workspaceId)
       IN SetMcp(m, IF credentials = None
                    THEN RouterDone(q.client, q.arrival, textResponse(401, "Unauthorized"))
                    ELSE [pc |-> "m_touch", client |-> q.client, arrival |-> q.arrival,
                          context |-> q.context, credentials |-> credentials])
    /\ UNCHANGED <<env, now, users, tokens, workspaces, wsCreated, reqs, deletions>>
    /\ UNCHANGED <<sessions, sidCreated>>

\* getWorkspaceCredentialsForUser: the UPDATE; then the dispatch to the actor.
RouterWorkspaceTouch(m) ==
    /\ McpQuiet
    /\ mcp[m].pc = "m_touch"
    /\ LET q == mcp[m] IN
       /\ workspaces' = TouchWorkspace(q.context.userId, q.context.workspaceId, now)
       /\ SetMcp(m, Dispatch(q.client, q.arrival, q.context, q.credentials))
    /\ UNCHANGED <<env, now, users, tokens, wsCreated, reqs, deletions>>
    /\ UNCHANGED <<sessions, sidCreated>>

\* POST /auth/tokens/revoke by a caller who presents a token of their own.
GatewayRevokeToken(r) ==
    \E secret \in IssuedSecrets, tokenId \in DOMAIN tokens :
        StartAuthenticated(r, "revokeToken", <<"Bearer", secret>>, None, [tokenId |-> tokenId])

\* The deployments of the router: with or without a secret to sign with (and
\* to admit static callers by); with the encryption key the workspace was
\* sealed under, with none, or with another one; and one with no database
\* bound and no static secret.
RotatedWorkspaceSecret == "fedcba9876543210fedcba9876543210"
GatewayDeployments ==
    { [AUTH_DB |-> TRUE, JIRA_WORKSPACE_ENCRYPTION_KEY |-> key,
       MCP_INTERNAL_SIGNING_SECRET |-> secrets[1], BETTER_AUTH_SECRET |-> Absent,
       MCP_AUTH_TOKEN |-> secrets[2], MCP_AUTH_TOKENS |-> <<>>] :
        key \in {LongWorkspaceSecret, Absent, RotatedWorkspaceSecret},
        secrets \in {<<SigningSecret, StaticSecret>>, <<Absent, Absent>>} }
    \cup { [AUTH_DB |-> FALSE, JIRA_WORKSPACE_ENCRYPTION_KEY |-> LongWorkspaceSecret,
            MCP_INTERNAL_SIGNING_SECRET |-> SigningSecret, BETTER_AUTH_SECRET |-> Absent,
            MCP_AUTH_TOKEN |-> Absent, MCP_AUTH_TOKENS |-> <<>>] }

\* A deployment in use: user u1 has registered, holds the unscoped token t1
\* and the token t2 scoped to their workspace w1, and has used both.
GatewayInit ==
    /\ env \in GatewayDeployments
    /\ now = 0
    /\ users = ("u1" :> [email |-> "a@x.io",
                         passwordHash |-> hashPassword("correct-horse", "u1"),
                         passwordSalt |-> "u1"])
    /\ tokens = ("t1" :> [userId |-> "u1", workspaceId |-> Absent,
                          tokenHash |-> hashToken(SecretPool[1]), createdAt |-> 0,
                          expiresAt |-> NoTime, lastUsedAt |-> 0, revokedAt |-> NoTime])
             @@ ("t2" :> [userId |-> "u1", workspaceId |-> "w1",
                          tokenHash |-> hashToken(SecretPool[2]), createdAt |-> 0,
                          expiresAt |-> NoTime, lastUsedAt |-> 0, revokedAt |-> NoTime])
    /\ workspaces =
           ("w1" :> [userId |-> "u1", workspaceName |-> "ws-A",
                     jiraBaseUrl |-> "https://jira.example", jiraUsername |-> "a@x.io",
                     jiraApiTokenCiphertext |->
                         encryptSecret(deriveWorkspaceCryptoKey(LongWorkspaceSecret),
                                       "jira-api-token-1", <<"iv", "w1">>).ciphertext,
                     jiraApiTokenIv |-> <<"iv", "w1">>,
                     lastUsedAt |-> 0])
    /\ wsCreated = 1
    /\ reqs = [r \in Slots |-> Idle]
    /\ deletions = EmptyTable
    /\ sessions = [p \in Partitions |-> EmptyTable]
    /\ sidCreated = 0
    /\ mcp = [m \in Slots |-> McpIdle]

GatewayNext ==
    \/ RouterArrive(1)
    \/ RouterAuthorize(1)
    \/ RouterWorkspaceSelect(1)
    \/ RouterWorkspaceTouch(1)
    \/ ActorHandle(1)
    \/ HandshakeComplete(1, GatewaySessions)
    \/ \E p \in Partitions : ActorRestart(p)
    \/ ReapMcp(1)
    \/ GatewayRevokeToken(1)
    \/ RevokeSelect(1)
    \/ RevokeUpdate(1)
    \/ Reap(1)

GatewaySpec == GatewayInit /\ [][GatewayNext]_vars

\* ------------------------------------------------------------------------
\* The router under requests from browsers: Origin and preflight
\* ------------------------------------------------------------------------
\* The Origin headers drawn: none, empty, "null", and URLs.
Origins ==
    {Absent, "", "null", "http://localhost:5173", "https://127.0.0.1", "http://LOCALHOST",
     "https://evil.example", "http://localhost.evil.example", "ftp://localhost"}

WithOrigin(client, origin) ==
    IF origin = Absent THEN client
    ELSE [client EXCEPT !.headers = HeaderSet(@, "origin", origin)]

\* Preflights (with and without a list of requested headers), handshakes under
\* every kind of bearer, a call for an unknown session, /health and a path
\* the router does not serve.
CorsRequests ==
    LET handshake == ClientRequest("POST", InitializeBody, NoFields, ClientCredentialHeaders)
        plain ==
            {ClientRequest("OPTIONS", "", NoFields, NoFields),
             ClientRequest("OPTIONS", "", NoFields, ("access-control-request-headers" :> "x-custom")),
             handshake,
             WithBearer(ClientRequest("POST", CallBody, NoFields, ("mcp-session-id" :> "sid-unknown")),
                        StaticSecret),
             [ClientRequest("GET", "", NoFields, NoFields) EXCEPT !.pathname = "/health"],
             [ClientRequest("GET", "", NoFields, NoFields) EXCEPT !.pathname = "/favicon.ico"]}
            \cup {WithBearer(handshake, b) : b \in GatewayBearers}
    IN {WithOrigin(client, origin) : client \in plain, origin \in Origins}

CorsNext ==
    \/ RouterReceive(1, CorsRequests)
    \/ RouterAuthorize(1)
    \/ RouterWorkspaceSelect(1)
    \/ RouterWorkspaceTouch(1)
    \/ ActorHandle(1)
    \/ HandshakeComplete(1, GatewaySessions)
    \/ \E p \in Partitions : ActorRestart(p)
    \/ ReapMcp(1)

CorsSpec == GatewayInit /\ [][CorsNext]_vars

\* ------------------------------------------------------------------------
\* The router and actor under handshakes that bring credentials of their own
\* ------------------------------------------------------------------------
BindingRequests ==
    { WithBearer(ClientRequest("POST", InitializeBody, c.search, c.headers), b) :
        c \in CredentialCarriers, b \in GatewayBearers }

BindingNext ==
    \/ RouterReceive(1, BindingRequests)
    \/ RouterAuthorize(1)
    \/ RouterWorkspaceSelect(1)
    \/ RouterWorkspaceTouch(1)
    \/ ActorHandle(1)
    \/ HandshakeComplete(1, GatewaySessions)
    \/ \E p \in Partitions : ActorRestart(p)
    \/ ReapMcp(1)

BindingSpec == GatewayInit /\ [][BindingNext]_vars

\* ------------------------------------------------------------------------
\* Issuing tokens: lifetimes, the clock, and workspace scopes
\* ------------------------------------------------------------------------
MaxSeconds == 2
IssueTokens == 1

\* expiresInDays omitted, 0, 0.5, 1, 1.5, 365, 400 and -1; neverExpires with
\* and without expiresInDays.
IssueOptionInputs ==
    { [tokenNameLen |-> 7, neverExpires |-> FALSE, hasDays |-> FALSE, days |-> 0, halfDay |-> FALSE],
      [tokenNameLen |-> 7, neverExpires |-> TRUE, hasDays |-> FALSE, days |-> 0, halfDay |-> FALSE],
      [tokenNameLen |-> 7, neverExpires |-> TRUE, hasDays |-> TRUE, days |-> 5, halfDay |-> FALSE] }
    \cup { [tokenNameLen |-> 7, neverExpires |-> FALSE, hasDays |-> TRUE, days |-> d[1],
            halfDay |-> d[2]] :
             d \in {<<0, FALSE>>, <<0, TRUE>>, <<1, FALSE>>, <<1, TRUE>>, <<365, FALSE>>,
                    <<400, FALSE>>, <<0 - 1, FALSE>>} }

\* Date.now() moves on while a request is served.
TickSecond ==
    /\ Quiet
    /\ now < MaxSeconds
    /\ now' = now + 1
    /\ UNCHANGED <<env, users, tokens, workspaces, wsCreated, reqs, deletions>>
    /\ UNCHANGED gatewayVars

\* A deployment in use: u1 has registered with a password, ba1 came in
\* through a session and has created the workspace w1.
IssueInit ==
    /\ env = [AUTH_DB |-> TRUE, JIRA_WORKSPACE_ENCRYPTION_KEY |-> LongWorkspaceSecret]
    /\ now = 0
    /\ users = ("u1" :> [email |-> "a@x.io",
                         passwordHash |-> hashPassword("correct-horse", "u1"),
                         passwordSalt |-> "u1"])
            @@ ("ba1" :> [email |-> "b@x.io",
                          passwordHash |-> hashPassword("<random>", "ba1"),
                          passwordSalt |-> "ba1"])
    /\ tokens = EmptyTable
    /\ workspaces =
           ("w1" :> [userId |-> "ba1", workspaceName |-> "ws-A",
                     jiraBaseUrl |-> "https://jira.example", jiraUsername |-> "a@x.io",
                     jiraApiTokenCiphertext |->
                         encryptSecret(deriveWorkspaceCryptoKey(LongWorkspaceSecret),
                                       "jira-api-token-1", <<"iv", "w1">>).ciphertext,
                     jiraApiTokenIv |-> <<"iv", "w1">>,
                     lastUsedAt |-> NoTime])
    /\ wsCreated = 1
    /\ reqs = [r \in Slots |-> Idle]
    /\ deletions = EmptyTable
    /\ sessions = [p \in Partitions |-> EmptyTable]
    /\ sidCreated = 0
    /\ mcp = [m \in Slots |-> McpIdle]

IssueNext ==
    \/ Login(1, IssueOptionInputs)
    \/ CreateToken(1, IssueOptionInputs)
    \/ TokenWorkspaceCheck(1)
    \/ TokenInsert(1, IssueTokens)
    \/ Reap(1)
    \/ Crash(1)
    \/ TickSecond

IssueSpec == IssueInit /\ [][IssueNext]_vars

\* ------------------------------------------------------------------------
\* Two users with tokens: listing and revoking
\* ------------------------------------------------------------------------
ScopeTokens == 3

\* u1 has registered and logged in (t1); ba1 came in through a session and
\* created t2.
ScopeInit ==
    /\ env = [AUTH_DB |-> TRUE, JIRA_WORKSPACE_ENCRYPTION_KEY |-> LongWorkspaceSecret]
    /\ now = 0
    /\ users = ("u1" :> [email |-> "a@x.io",
                         passwordHash |-> hashPassword("correct-horse", "u1"),
                         passwordSalt |-> "u1"])
            @@ ("ba1" :> [email |-> "b@x.io",
                          passwordHash |-> hashPassword("<random>", "ba1"),
                          passwordSalt |-> "ba1"])
    /\ tokens = [id \in {TokenIdPool[1], TokenIdPool[2]} |->
                   [userId |-> IF id = TokenIdPool[1] THEN "u1" ELSE "ba1",
                    workspaceId |-> Absent,
                    tokenHash |-> hashToken(IF id = TokenIdPool[1] THEN SecretPool[1]
                                            ELSE SecretPool[2]),
                    createdAt |-> 0, expiresAt |-> NoTime, lastUsedAt |-> NoTime,
                    revokedAt |-> NoTime]]
    /\ workspaces = EmptyTable
    /\ wsCreated = 0
    /\ reqs = [r \in Slots |-> Idle]
    /\ deletions = EmptyTable
    /\ sessions = [p \in Partitions |-> EmptyTable]
    /\ sidCreated = 0
    /\ mcp = [m \in Slots |-> McpIdle]

ScopeNext ==
    \/ StartLogin(1)
    \/ TokenInsert(1, ScopeTokens)
    \/ StartListTokens(1)
    \/ ListSelect(1)
    \/ StartRevokeToken(1)
    \/ RevokeSelect(1)
    \/ RevokeUpdate(1)
    \/ ValidateUserToken(1)
    \/ Reap(1)
    \/ Crash(1)
    \/ TickDay

ScopeSpec == ScopeInit /\ [][ScopeNext]_vars

\* ------------------------------------------------------------------------
\* revokeToken calls that overlap
\* ------------------------------------------------------------------------
\* Only revokeToken writes revoked_at here; the clock moves between the
\* statements of calls in flight.
RevokeRaceNext ==
    \/ \E r \in Slots : StartRevokeToken(r)
    \/ \E r \in Slots : RevokeSelect(r)
    \/ \E r \in Slots : RevokeUpdate(r)
    \/ \E r \in Slots : Reap(r)
    \/ \E r \in Slots : Crash(r)
    \/ TickSecond

RevokeRaceSpec == ScopeInit /\ [][RevokeRaceNext]_vars

\* ------------------------------------------------------------------------
\* getWorkspaceCredentialsForUser called for any user and workspace
\* ------------------------------------------------------------------------
\* The call returns `resp` to its caller.
CredentialsReturned(userId, workspaceId, resp) ==
    [op |-> "getWorkspaceCredentials", pc |-> "done", userId |-> userId,
     workspaceId |-> workspaceId, resp |-> resp]

\* getWorkspaceCredentialsForUser up to its UPDATE.
GetCredentialsSelect(r) ==
    \E userId \in DOMAIN users, workspaceId \in {WorkspaceIdPool[1], WorkspaceIdPool[2]} :
        LET credentials == SelectWorkspaceCredentials(userId, workspaceId) IN
        /\ Free(r)
        /\ Set(r, IF credentials = None
                  THEN CredentialsReturned(userId, workspaceId, None)
                  ELSE [op |-> "getWorkspaceCredentials", pc |-> "c_touch", userId |-> userId,
                        workspaceId |-> workspaceId, credentials |-> credentials])
        /\ UNCHANGED <<env, now, users, tokens, workspaces, wsCreated, deletions>>
        /\ UNCHANGED gatewayVars

\* getWorkspaceCredentialsForUser: the UPDATE of last_used_at and the return.
GetCredentialsTouch(r) ==
    /\ At(r, "c_touch")
    /\ LET q == reqs[r] IN
       /\ workspaces' = TouchWorkspace(q.userId, q.workspaceId, now)
       /\ Set(r, CredentialsReturned(q.userId, q.workspaceId, q.credentials))
    /\ UNCHANGED <<env, now, users, tokens, wsCreated, deletions>>
    /\ UNCHANGED gatewayVars

\* The deployments: the key the workspace was sealed under, no key, a key
\* that is too short, another key, and no database bound.
CredentialDeployments ==
    { [AUTH_DB |-> TRUE, JIRA_WORKSPACE_ENCRYPTION_KEY |-> key] :
        key \in {LongWorkspaceSecret, Absent, ShortWorkspaceSecret, RotatedWorkspaceSecret} }
    \cup { [AUTH_DB |-> FALSE, JIRA_WORKSPACE_ENCRYPTION_KEY |-> LongWorkspaceSecret] }

\* u1 holds the token t1 and the workspace w1, sealed under
\* LongWorkspaceSecret; ba1 came in through a session.
CredentialInit ==
    /\ env \in CredentialDeployments
    /\ now = 0
    /\ users = ("u1" :> [email |-> "a@x.io",
                         passwordHash |-> hashPassword("correct-horse", "u1"),
                         passwordSalt |-> "u1"])
            @@ ("ba1" :> [email |-> "b@x.io",
                          passwordHash |-> hashPassword("<random>", "ba1"),
                          passwordSalt |-> "ba1"])
    /\ tokens = ("t1" :> [userId |-> "u1", workspaceId |-> Absent,
                          tokenHash |-> hashToken(SecretPool[1]), createdAt |-> 0,
                          expiresAt |-> NoTime, lastUsedAt |-> NoTime, revokedAt |-> NoTime])
    /\ workspaces =
           ("w1" :> [userId |-> "u1", workspaceName |-> "ws-A",
                     jiraBaseUrl |-> "https://jira.example", jiraUsername |-> "a@x.io",
                     jiraApiTokenCiphertext |->
                         encryptSecret(deriveWorkspaceCryptoKey(LongWorkspaceSecret),
                                       "jira-api-token-1", <<"iv", "w1">>).ciphertext,
                     jiraApiTokenIv |-> <<"iv", "w1">>,
                     lastUsedAt |-> NoTime])
    /\ wsCreated = 1
    /\ reqs = [r \in Slots |-> Idle]
    /\ deletions = EmptyTable
    /\ sessions = [p \in Partitions |-> EmptyTable]
    /\ sidCreated = 0
    /\ mcp = [m \in Slots |-> McpIdle]

CredentialNext ==
    \/ GetCredentialsSelect(1)
    \/ GetCredentialsTouch(1)
    \/ StartDeleteWorkspace(1)
    \/ DeleteSelect(1) /\ UNCHANGED deletions
    \/ DeleteRevoke(1) /\ UNCHANGED deletions
    \/ DeleteDelete(1) /\ UNCHANGED deletions
    \/ Reap(1)
    \/ Crash(1)
    \/ TickDay

CredentialSpec == CredentialInit /\ [][CredentialNext]_vars

\* ------------------------------------------------------------------------
\* Sealing a workspace secret and reading it back
\* ------------------------------------------------------------------------
\* One secret per workspace name: padded, with a blank inside, of exactly
\* eight characters, and of seven.
SealInputs ==
    { [workspaceName |-> name[1], jiraBaseUrl |-> "https://jira.example",
       jiraUsername |-> "a@x.io", jiraApiToken |-> name[2]] :
         name \in {<<"ws-A", " jira-api-token-2 ">>, <<"ws-B", "pass word">>,
                   <<"ws-C", "12345678">>, <<"ws-D", "1234567">>} }

SealInit ==
    /\ env \in { [AUTH_DB |-> TRUE, JIRA_WORKSPACE_ENCRYPTION_KEY |-> key] :
                   key \in {LongWorkspaceSecret, RotatedWorkspaceSecret} }
    /\ now = 0
    /\ users = ("u1" :> [email |-> "a@x.io",
                         passwordHash |-> hashPassword("correct-horse", "u1"),
                         passwordSalt |-> "u1"])
            @@ ("ba1" :> [email |-> "b@x.io",
                          passwordHash |-> hashPassword("<random>", "ba1"),
                          passwordSalt |-> "ba1"])
    /\ tokens = ("t1" :> [userId |-> "u1", workspaceId |-> Absent,
                          tokenHash |-> hashToken(SecretPool[1]), createdAt |-> 0,
                          expiresAt |-> NoTime, lastUsedAt |-> NoTime, revokedAt |-> NoTime])
    /\ workspaces = EmptyTable
    /\ wsCreated = 0
    /\ reqs = [r \in Slots |-> Idle]
    /\ deletions = EmptyTable
    /\ sessions = [p \in Partitions |-> EmptyTable]
    /\ sidCreated = 0
    /\ mcp = [m \in Slots |-> McpIdle]

SealNext ==
    \/ CreateWorkspace(1, SealInputs)
    \/ WorkspaceDupCheck(1)
    \/ WorkspaceInsert(1)
    \/ GetCredentialsSelect(1)
    \/ GetCredentialsTouch(1)
    \/ Reap(1)
    \/ Crash(1)
    \/ TickDay

SealSpec == SealInit /\ [][SealNext]_vars

\* ------------------------------------------------------------------------
\* The vault under concurrent /auth requests
\* ------------------------------------------------------------------------
VaultInit ==
    /\ env \in { [AUTH_DB |-> TRUE, JIRA_WORKSPACE_ENCRYPTION_KEY |-> LongWorkspaceSecret],
                  [AUTH_DB |-> FALSE, JIRA_WORKSPACE_ENCRYPTION_KEY |-> Absent] }
    /\ now = 0
    /\ users = EmptyTable
    /\ tokens = EmptyTable
    /\ workspaces = EmptyTable
    /\ wsCreated = 0
    /\ reqs = [r \in Slots |-> Idle]
    /\ deletions = EmptyTable
    /\ sessions = [p \in Partitions |-> EmptyTable]
    /\ sidCreated = 0
    /\ mcp = [m \in Slots |-> McpIdle]

\* Requests served one at a time, over days; a request may die at any await.
VaultNext ==
    \/ StartRegister(1)
    \/ RegisterInsert(1)
    \/ StartLogin(1)
    \/ StartCreateToken(1)
    \/ StartRevokeToken(1)
    \/ StartCreateWorkspace(1)
    \/ StartDeleteWorkspace(1)
    \/ ValidateUserToken(1)
    \/ LegacyInsert(1)
    \/ TokenWorkspaceCheck(1)
    \/ TokenInsert(1, MaxTokens)
    \/ RevokeSelect(1)
    \/ RevokeUpdate(1)
    \/ WorkspaceDupCheck(1)
    \/ WorkspaceInsert(1)
    \/ DeleteSelect(1) /\ UNCHANGED deletions
    \/ DeleteRevoke(1) /\ UNCHANGED deletions
    \/ DeleteDelete(1) /\ UNCHANGED deletions
    \/ Reap(1)
    \/ Crash(1)
    \/ TickDay

VaultSpec == VaultInit /\ [][VaultNext]_vars

\* Requests served one at a time within one day, with the history of
\* deleteWorkspace kept; a request may die at any await.
DeleteNext ==
    \/ StartRegister(1)
    \/ RegisterInsert(1)
    \/ StartLogin(1)
    \/ StartCreateToken(1)
    \/ StartRevokeToken(1)
    \/ StartCreateWorkspace(1)
    \/ StartDeleteWorkspace(1)
    \/ ValidateUserToken(1)
    \/ LegacyInsert(1)
    \/ TokenWorkspaceCheck(1)
    \/ TokenInsert(1, MaxTokens)
    \/ RevokeSelect(1)
    \/ RevokeUpdate(1)
    \/ WorkspaceDupCheck(1)
    \/ WorkspaceInsert(1)
    \/ DeleteSelect(1) /\ RecordStarted(1)
    \/ DeleteRevoke(1) /\ RecordPhase(1, "revoked")
    \/ DeleteDelete(1) /\ RecordPhase(1, "returned")
    \/ Reap(1)
    \/ Crash(1)

DeleteSpec == VaultInit /\ [][DeleteNext]_vars

\* Requests racing: their statements interleave in every order.
RaceNext ==
    \/ \E r \in Slots : StartRegister(r)
    \/ \E r \in Slots : RegisterInsert(r)
    \/ \E r \in Slots : StartLogin(r)
    \/ \E r \in Slots : StartCreateToken(r)
    \/ \E r \in Slots : StartRevokeToken(r)
    \/ \E r \in Slots : StartCreateWorkspace(r)
    \/ \E r \in Slots : StartDeleteWorkspace(r)
    \/ \E r \in Slots : ValidateUserToken(r)
    \/ \E r \in Slots : LegacyInsert(r)
    \/ \E r \in Slots : TokenWorkspaceCheck(r)
    \/ \E r \in Slots : TokenInsert(r, RaceTokens)
    \/ \E r \in Slots : RevokeSelect(r)
    \/ \E r \in Slots : RevokeUpdate(r)
    \/ \E r \in Slots : WorkspaceDupCheck(r)
    \/ \E r \in Slots : WorkspaceInsert(r)
    \/ \E r \in Slots : DeleteSelect(r) /\ UNCHANGED deletions
    \/ \E r \in Slots : DeleteRevoke(r) /\ UNCHANGED deletions
    \/ \E r \in Slots : DeleteDelete(r) /\ UNCHANGED deletions
    \/ \E r \in Slots : Reap(r)
    \/ \E r \in Slots : Crash(r)

RaceSpec == VaultInit /\ [][RaceNext]_vars

\* ------------------------------------------------------------------------
\* Properties of the vault
\* ------------------------------------------------------------------------
ValidateReturned(r) == reqs[r].op = "validateUserToken" /\ reqs[r].pc = "done"

\* The tokens the presented credential matches that are neither revoked nor expired.
LiveTokens(token) ==
    {id \in DOMAIN tokens : /\ tokens[id].tokenHash = hashToken(token)
                            /\ tokens[id].revokedAt = NoTime
                            /\ (tokens[id].expiresAt = NoTime \/ tokens[id].expiresAt > now)}

\* C1: validateToken returns an identity context if and only if a stored token
\* has the hash of the presented secret, a null revokedAt, and an expiresAt that
\* is null or strictly later than the clock; otherwise it returns nothing.
C1_ValidateIffLiveToken ==
    \A r \in Slots :
        ValidateReturned(r) =>
            IF LiveTokens(reqs[r].token) = {}
            THEN reqs[r].resp = None
            ELSE reqs[r].resp # None /\ reqs[r].resp.tokenId \in LiveTokens(reqs[r].token)

\* A token presented at the very instant it expires, unrevoked, was refused.
C1_Witness ==
    \E r \in Slots : \E id \in DOMAIN tokens :
        /\ ValidateReturned(r)
        /\ reqs[r].resp = None
        /\ tokens[id].tokenHash = hashToken(reqs[r].token)
        /\ tokens[id].revokedAt = NoTime
        /\ tokens[id].expiresAt = now

C3_DeletedWorkspaceTokensRejected ==
    \A w \in DOMAIN deletions :
        deletions[w].phase = "returned" =>
            \A id \in deletions[w].scoped :
                /\ \A secret \in PresentedSecrets :
                       \A row \in ValidateSelect(secret, now) : row.tokenId # id
                /\ \A r \in Slots :
                       (ValidateReturned(r) /\ reqs[r].resp # None) => reqs[r].resp.tokenId # id

\* A never-expiring token scoped to a deleted workspace was presented and refused.
C3_Witness ==
    \E w \in DOMAIN deletions : \E id \in deletions[w].scoped : \E r \in Slots :
        /\ deletions[w].phase = "returned"
        /\ tokens[id].expiresAt = NoTime
        /\ ValidateReturned(r)
        /\ tokens[id].tokenHash = hashToken(reqs[r].token)
        /\ reqs[r].resp = None

\* C4: deleteWorkspace revokes before it deletes: in every state, a crash between
\* the two writes included, the workspace row is absent only if every token
\* scoped to it when the deletion started has revokedAt set.
C4_AbsentOnlyAfterRevoked ==
    \A w \in DOMAIN deletions :
        w \notin DOMAIN workspaces =>
            \A id \in deletions[w].scoped : tokens[id].revokedAt # NoTime

\* The request died between the two writes: the tokens are revoked, the
\* workspace row is still there, nothing is in flight.
C4_Witness ==
    \E w \in DOMAIN deletions :
        /\ deletions[w].phase = "revoked"
        /\ deletions[w].scoped # {}
        /\ w \in DOMAIN workspaces
        /\ \A id \in deletions[w].scoped : tokens[id].revokedAt # NoTime
        /\ \A r \in Slots : reqs[r] = Idle

\* ------------------------------------------------------------------------
\* Session ownership and partitions
\* ------------------------------------------------------------------------
\* The actor has answered request slot m.
Handled(m) == mcp[m].pc = "done" /\ mcp[m].outcome # "router"

\* The answered request got as far as the table lookup.
ReachedLookup(m) ==
    /\ Handled(m)
    /\ mcp[m].request.pathname = "/mcp"
    /\ resolveInternalSigningSecret(env) # Absent
    /\ verifyWorkerToDoRequestSignature(mcp[m].request, resolveInternalSigningSecret(env), DateNow)
    /\ ~parseJsonBody(mcp[m].request).invalidJson

LookupSid(m) == getSessionIdFromRequest(mcp[m].request)
FoundSession(m) ==
    ReachedLookup(m) /\ LookupSid(m) # Absent /\ LookupSid(m) \in DOMAIN sessions[mcp[m].partition]
StoredEntry(m) == sessions[mcp[m].partition][LookupSid(m)]

RequestClaims(m) ==
    [authUserId |-> TrimOrNull(Get(mcp[m].request.headers, "x-auth-user-id")),
     authTokenId |-> TrimOrNull(Get(mcp[m].request.headers, "x-auth-token-id")),
     authWorkspaceId |-> TrimOrNull(Get(mcp[m].request.headers, "x-auth-workspace-id"))]
ClaimFields == {"authUserId", "authTokenId", "authWorkspaceId"}

Forbidden(m) == mcp[m].outcome = "error" /\ mcp[m].resp.status = 403
Delegated(m) == mcp[m].outcome = "delegate"

\* C8 as stated: a request for a found session whose identity claims differ
\* in any way from the claims captured at creation is answered forbidden and
\* is not delegated.
C8_AnyDifferenceForbidden ==
    \A m \in Slots :
        (FoundSession(m) /\ \E f \in ClaimFields : RequestClaims(m)[f] # StoredEntry(m)[f])
            => Forbidden(m) /\ ~Delegated(m)

\* C8: a request for a found session is answered forbidden, and not
\* delegated, exactly when some claim that the session captured with a value
\* differs from the request's claim; a claim the session captured empty is
\* not compared, and the request is then delegated to the session's transport.
C8_PopulatedClaimsEnforced ==
    \A m \in Slots :
        FoundSession(m) =>
            IF \E f \in ClaimFields :
                   StoredEntry(m)[f] # Absent /\ RequestClaims(m)[f] # StoredEntry(m)[f]
            THEN Forbidden(m) /\ ~Delegated(m)
            ELSE Delegated(m) /\ mcp[m].resp.sessionId = LookupSid(m)

\* A caller presenting another token of the same user is turned away from a
\* session that captured its creator's token.
C8_Witness ==
    \E m \in Slots :
        /\ FoundSession(m)
        /\ StoredEntry(m).authUserId = RequestClaims(m).authUserId
        /\ StoredEntry(m).authTokenId # Absent
        /\ StoredEntry(m).authTokenId # RequestClaims(m).authTokenId
        /\ Forbidden(m)

\* C10: no session id is in the tables of two partitions; a request that
\* carries, into one partition, an id that only another partition's table
\* holds is answered with the unknown-session error (404); and answering a
\* request with an error changes no table.
ForeignSid(m) ==
    /\ ReachedLookup(m)
    /\ LookupSid(m) # Absent
    /\ LookupSid(m) \notin DOMAIN sessions[mcp[m].partition]
    /\ \E p \in Partitions : LookupSid(m) \in DOMAIN sessions[p]

UnknownSession(m) ==
    /\ mcp[m].outcome = "error"
    /\ mcp[m].request.pathname = "/mcp"
    /\ mcp[m].resp.status = 404
    /\ mcp[m].resp.payload.error.code = -32001

C10_TablesDisjoint ==
    \A p1, p2 \in Partitions :
        p1 # p2 => DOMAIN sessions[p1] \cap DOMAIN sessions[p2] = {}
C10_ForeignSidUnknown == \A m \in Slots : ForeignSid(m) => UnknownSession(m)
C10_ErrorLeavesTables ==
    \A m \in Slots :
        (mcp[m].pc = "m_actor" /\ mcp'[m].pc = "done") => sessions' = sessions

C10_PartitionsIndependent ==
    /\ [](C10_TablesDisjoint /\ C10_ForeignSidUnknown)
    /\ [][C10_ErrorLeavesTables]_vars

C10_Witness ==
    \E m \in Slots :
        /\ ForeignSid(m)
        /\ UnknownSession(m)
        /\ \E p \in Partitions : sessions[p] # EmptyTable /\ p # mcp[m].partition
        /\ sessions[mcp[m].partition] # EmptyTable

\* ------------------------------------------------------------------------
\* The internal signature
\* ------------------------------------------------------------------------
\* The request of slot m is before the actor or has been answered by it.
AtActor(m) == mcp[m].pc = "m_actor" \/ Handled(m)
ActorSecret == resolveInternalSigningSecret(env)
Verifies(m) == verifyWorkerToDoRequestSignature(mcp[m].request, ActorSecret, DateNow)
SignedAt(m) == Number(Get(mcp[m].signed.headers, INTERNAL_TIMESTAMP_HEADER))
RejectedUnauthorized(m) ==
    /\ mcp[m].outcome = "error"
    /\ mcp[m].resp.status = 401
    /\ mcp[m].resp.payload.error.code = -32002

\* C6: an unmodified signed request verifies at time t' exactly when t' is
\* no more than two minutes from its signing time t, before or after; and
\* the actor answers a delivery outside that window with unauthorized.
C6_FreshnessWindow ==
    \A m \in Slots :
        (AtActor(m) /\ mcp[m].tampered = "none") =>
            /\ Verifies(m) <=> Abs(DateNow - SignedAt(m)) <= 2 * 60 * 1000
            /\ (Handled(m) /\ Abs(DateNow - SignedAt(m)) > 2 * 60 * 1000)
                   => RejectedUnauthorized(m)

\* A request the actor answered once is replayed unchanged three minutes
\* after it was signed and is rejected.
C6_Witness ==
    \E m \in Slots :
        /\ Handled(m)
        /\ mcp[m].tampered = "none"
        /\ mcp[m].replayed
        /\ DateNow - SignedAt(m) > 2 * 60 * 1000
        /\ RejectedUnauthorized(m)

\* What handleMcpRequest reads from a request to decide on sessions,
\* ownership and credentials.
ActorReads(request) ==
    [method |-> request.method,
     body |-> request.body,
     sessionId |-> getSessionIdFromRequest(request),
     authUserId |-> TrimOrNull(Get(request.headers, "x-auth-user-id")),
     authTokenId |-> TrimOrNull(Get(request.headers, "x-auth-token-id")),
     authWorkspaceId |-> TrimOrNull(Get(request.headers, "x-auth-workspace-id")),
     credentials |-> readJiraCredentials(request)]

\* C7, first part: a request with one signed field changed after signing
\* never verifies.
C7_SignedFieldChangeDetected ==
    \A m \in Slots : (AtActor(m) /\ mcp[m].tampered \in SignedFields) => ~Verifies(m)

\* C7: a request with one signed field changed after signing does not
\* verify, and whatever else is changed after signing, a request that still
\* verifies gives the actor the session id, identity claims and credentials
\* that the signed request gave.
C7_SignatureCoversActorInputs ==
    \A m \in Slots :
        (AtActor(m) /\ mcp[m].tampered # "none") =>
            /\ mcp[m].tampered \in SignedFields => ~Verifies(m)
            /\ Verifies(m) => ActorReads(mcp[m].request) = ActorReads(mcp[m].signed)

\* ------------------------------------------------------------------------
\* The Edge Router in front of the vault
\* ------------------------------------------------------------------------
\* C5: a request that reached the router with a bearer token whose
\* revocation had completed never gets past authorizeRequest: it is either
\* still waiting for it or has been answered 401 by the router, and is never
\* on its way to, or answered by, a Session Actor.
C5_RevokedNeverForwarded ==
    \A m \in Slots :
        (mcp[m].pc # "idle" /\ mcp[m].arrival.revoked) =>
            \/ mcp[m].pc = "m_auth"
            \/ /\ mcp[m].pc = "done"
               /\ mcp[m].outcome = "router"
               /\ mcp[m].resp.status = 401

\* The revoked token presents the id of a live session that it created and
\* is answered 401 by the router.
C5_Witness ==
    \E m \in Slots :
        /\ mcp[m].pc = "done"
        /\ mcp[m].arrival.revoked
        /\ mcp[m].outcome = "router"
        /\ mcp[m].resp.status = 401
        /\ \E p \in Partitions, id \in DOMAIN tokens :
               /\ Get(mcp[m].client.headers, "mcp-session-id") \in DOMAIN sessions[p]
               /\ sessions[p][Get(mcp[m].client.headers, "mcp-session-id")].authTokenId = id
               /\ tokens[id].tokenHash = hashToken(RequestBearerToken(mcp[m].client))

\* The identity claims the vault holds for the bearer credential of a
\* request: none for a static secret, the token's row for a user token.
IdentityHeaders ==
    {"x-auth-user-id", "x-auth-user-email", "x-auth-token-id", "x-auth-workspace-id"}
VaultClaims(client) ==
    LET ids == {id \in DOMAIN tokens :
                   tokens[id].tokenHash = hashToken(RequestBearerToken(client))}
    IN IF ids = {} THEN [h \in IdentityHeaders |-> Absent]
       ELSE LET row == tokens[CHOOSE id \in ids : TRUE] IN
            ("x-auth-user-id" :> row.userId) @@ ("x-auth-user-email" :> users[row.userId].email)
            @@ ("x-auth-token-id" :> (CHOOSE id \in ids : TRUE))
            @@ ("x-auth-workspace-id" :> row.workspaceId)

Forwarded(m) == mcp[m].pc \in {"m_actor", "m_connect"} \/ Handled(m)

\* C9: on every request the router forwards, each identity-claim header
\* carries the value the vault holds for the authenticated caller, and is
\* absent where the vault holds none (a static-secret caller, the workspace
\* of an unscoped token): what the client put there does not reach the actor.
C9_IdentityHeadersFromVault ==
    \A m \in Slots :
        Forwarded(m) =>
            \A h \in IdentityHeaders : Get(mcp[m].signed.headers, h) = VaultClaims(mcp[m].client)[h]

\* C9, the part that holds: for a user-token caller the user id, email and
\* token id headers carry the vault's values.
C9_UserHeadersOverwritten ==
    \A m \in Slots :
        (Forwarded(m) /\ VaultClaims(mcp[m].client)["x-auth-token-id"] # Absent) =>
            \A h \in IdentityHeaders \ {"x-auth-workspace-id"} :
                Get(mcp[m].signed.headers, h) = VaultClaims(mcp[m].client)[h]

\* ------------------------------------------------------------------------
\* The actor's order of checks
\* ------------------------------------------------------------------------
NotFoundText(m) ==
    /\ mcp[m].outcome = "error"
    /\ mcp[m].resp.status = 404
    /\ mcp[m].resp.payload = "Not Found"

\* The actor answers request m, which does not verify, and touches nothing.
UnverifiedLeavesTables ==
    \A m \in Slots :
        (/\ mcp[m].pc = "m_actor"
         /\ mcp'[m] # mcp[m]
         /\ mcp'[m].pc # "idle"
         /\ mcp'[m].request = mcp[m].request
         /\ ~Verifies(m))
            => mcp'[m].pc = "done" /\ mcp'[m].outcome = "error" /\ sessions' = sessions

\* C11 as stated: every request delivered to an actor that fails
\* verification is answered unauthorized.
C11_UnverifiedAlwaysUnauthorized ==
    \A m \in Slots : (Handled(m) /\ ~Verifies(m)) => RejectedUnauthorized(m)

\* C11: a request delivered to an actor that does not verify is answered
\* with an error and nothing else happens for it: unauthorized (401) when its
\* path is /mcp, the plain 404 of the path test, which runs before the
\* verification, otherwise; it is never delegated, creates no session, and
\* the session tables are unchanged.
C11_VerifiedBeforeSessionLogic ==
    /\ [](\A m \in Slots :
            (Handled(m) /\ ~Verifies(m)) =>
                IF mcp[m].request.pathname = "/mcp"
                THEN RejectedUnauthorized(m)
                ELSE NotFoundText(m))
    /\ [][UnverifiedLeavesTables]_vars

\* A request that carries the id of a live session, changed in flight or
\* stale, is answered unauthorized.
C11_Witness ==
    \E m \in Slots :
        /\ Handled(m)
        /\ ~Verifies(m)
        /\ RejectedUnauthorized(m)
        /\ getSessionIdFromRequest(mcp[m].request) # Absent
        /\ getSessionIdFromRequest(mcp[m].request) \in DOMAIN sessions[mcp[m].partition]

\* ------------------------------------------------------------------------
\* The router's order of steps
\* ------------------------------------------------------------------------
StaticSecrets == parseAuthTokens(env.MCP_AUTH_TOKEN, env.MCP_AUTH_TOKENS)
PresentedRows(client) ==
    {id \in DOMAIN tokens : tokens[id].tokenHash = hashToken(RequestBearerToken(client))}

\* The caller of request m passed authorizeRequest: a static secret, or a
\* user token that was not revoked when the request arrived.
Authenticated(m) ==
    /\ RequestBearerToken(mcp[m].client) # Absent
    /\ \/ RequestBearerToken(mcp[m].client) \in StaticSecrets
       \/ env.AUTH_DB /\ PresentedRows(mcp[m].client) # {} /\ ~mcp[m].arrival.revoked

\* The workspace the caller's token is bound to, if any.
BoundWorkspace(m) ==
    IF RequestBearerToken(mcp[m].client) \in StaticSecrets \/ PresentedRows(mcp[m].client) = {}
    THEN Absent
    ELSE tokens[CHOOSE id \in PresentedRows(mcp[m].client) : TRUE].workspaceId
BoundCredentials(m) == SelectWorkspaceCredentials("u1", BoundWorkspace(m))

RouterAnswered(m) == mcp[m].pc = "done" /\ mcp[m].outcome = "router"

\* C12: a request is on its way to an actor only if its caller was
\* authenticated, the credentials of the bound workspace were resolved and
\* attached, a signing secret exists, and the signature covers the request
\* with the identity and credential headers on it; a request the router
\* answers itself was answered 401 or 500 and was never signed, and the 500
\* for the missing signing secret comes only after authentication and
\* credential resolution succeeded.
C12_DispatchAfterAllSteps ==
    \A m \in Slots :
        /\ Forwarded(m) =>
            /\ Authenticated(m)
            /\ ActorSecret # Absent
            /\ verifyWorkerToDoRequestSignature(mcp[m].signed, ActorSecret, DateNow)
            /\ BoundWorkspace(m) # Absent =>
                /\ BoundCredentials(m) # None
                /\ Get(mcp[m].signed.headers, "x-auth-workspace-id") = BoundWorkspace(m)
                /\ Get(mcp[m].signed.headers, "x-jira-base-url") = BoundCredentials(m).jiraBaseUrl
                /\ Get(mcp[m].signed.headers, "x-jira-username") = BoundCredentials(m).jiraUsername
                /\ Get(mcp[m].signed.headers, "x-jira-api-token") = BoundCredentials(m).jiraApiToken
                /\ mcp[m].partition = "jira-workspace:" \o BoundWorkspace(m)
            /\ BoundWorkspace(m) = Absent => mcp[m].partition = SESSION_HUB_NAME
        /\ RouterAnswered(m) =>
            /\ mcp[m].signed = None
            /\ mcp[m].resp.status \in {401, 500}
            /\ mcp[m].resp.payload = "Server misconfigured: missing internal signing secret" =>
                /\ Authenticated(m)
                /\ ActorSecret = Absent
                /\ BoundWorkspace(m) # Absent => BoundCredentials(m) # None
            /\ mcp[m].resp.payload = "Server misconfigured: missing MCP auth token" =>
                StaticSecrets = {} /\ ~env.AUTH_DB
            /\ mcp[m].resp.status = 401 =>
                \/ ~Authenticated(m)
                \/ \E id \in PresentedRows(mcp[m].client) : tokens[id].revokedAt # NoTime
                \/ BoundWorkspace(m) # Absent /\ BoundCredentials(m) = None

\* A caller with a workspace-bound token is forwarded with the workspace's
\* decrypted credentials attached and signed.
C12_Witness ==
    \E m \in Slots :
        /\ Forwarded(m)
        /\ BoundWorkspace(m) = "w1"
        /\ Get(mcp[m].signed.headers, "x-jira-api-token") = "jira-api-token-1"
        /\ Verifies(m)

\* ------------------------------------------------------------------------
\* Unknown session ids
\* ------------------------------------------------------------------------
\* The answered request verified, and carried a session id that the table of
\* its partition does not hold.
UnknownSidSupplied(m) ==
    /\ Handled(m)
    /\ mcp[m].request.pathname = "/mcp"
    /\ Verifies(m)
    /\ LookupSid(m) # Absent
    /\ LookupSid(m) \notin DOMAIN sessions[mcp[m].partition]

ParseError(m) ==
    /\ mcp[m].outcome = "error"
    /\ mcp[m].resp.status = 400
    /\ mcp[m].resp.payload.error.code = -32700

GeneratedSids == {SidPool[i] : i \in 1..sidCreated}

\* A session is added only for a request that carried no session id.
CreatedOnlyWithoutSid ==
    \A p \in Partitions :
        DOMAIN sessions'[p] \ DOMAIN sessions[p] # {} =>
            \E m \in Slots :
                /\ mcp[m].pc = "m_connect"
                /\ mcp[m].partition = p
                /\ getSessionIdFromRequest(mcp[m].request) = Absent
                /\ DOMAIN sessions'[p] \ DOMAIN sessions[p] = {mcp'[m].resp.sessionId}

\* C13 as stated: whatever its body, a verified request with a session id
\* that the table does not hold gets the unknown-session error.
C13_UnknownSidAlways404 ==
    \A m \in Slots : UnknownSidSupplied(m) => UnknownSession(m)

\* C13: a verified request with a session id that the table does not hold
\* never creates a session and is answered with an error: the parse error
\* (400) when it is a POST whose body is not valid JSON, the unknown-session
\* error (404) otherwise, an initialize call included; and every key of a
\* session table is an id the actor generated, given to a request that
\* carried no session id.
C13_UnknownSidNeverCreates ==
    /\ [](\A m \in Slots :
            UnknownSidSupplied(m) =>
                IF parseJsonBody(mcp[m].request).invalidJson
                THEN ParseError(m)
                ELSE UnknownSession(m))
    /\ [](\A p \in Partitions : DOMAIN sessions[p] \subseteq GeneratedSids)
    /\ [][CreatedOnlyWithoutSid]_vars

\* An initialize call with credentials, carrying an id the actor never
\* issued, is answered with the unknown-session error.
C13_Witness ==
    \E m \in Slots :
        /\ UnknownSidSupplied(m)
        /\ mcp[m].request.body = InitializeBody
        /\ readJiraCredentials(mcp[m].request) # None
        /\ LookupSid(m) \notin GeneratedSids
        /\ UnknownSession(m)

\* ------------------------------------------------------------------------
\* The life of a session
\* ------------------------------------------------------------------------
Active(sid) == \E p \in Partitions : sid \in DOMAIN sessions[p]
Closed(sid) == sid \in GeneratedSids /\ ~Active(sid)

\* An id enters a table only as a newly generated one, and into one table.
SessionBecomesActiveOnce ==
    \A i \in 1..Len(SidPool) :
        LET sid == SidPool[i] IN
        \A p \in Partitions :
            (sid \notin DOMAIN sessions[p] /\ sid \in DOMAIN sessions'[p]) =>
                /\ i = sidCreated + 1
                /\ sidCreated' = sidCreated + 1
                /\ \E m \in Slots : mcp[m].pc = "m_connect" /\ mcp[m].partition = p

\* C14: a session id is in a table only from the completion of its
\* handshake until its transport closes or the actor restarts: an id enters
\* a table only when it is generated, an id that has left never enters one
\* again, and a request that reaches the session lookup with an id that has
\* left gets the unknown-session error.
C14_SessionLifecycle ==
    /\ [](\A m \in Slots : (ReachedLookup(m) /\ LookupSid(m) # Absent /\ Closed(LookupSid(m)))
                               => UnknownSession(m))
    /\ [][SessionBecomesActiveOnce]_vars
    /\ [][\A i \in 1..Len(SidPool) : Closed(SidPool[i]) => Closed(SidPool[i])']_vars

\* A request carries the id of a session that was closed, in the partition
\* that held it, and gets the unknown-session error.
C14_Witness ==
    \E m \in Slots :
        /\ ReachedLookup(m)
        /\ LookupSid(m) # Absent
        /\ Closed(LookupSid(m))
        /\ mcp[m].partition = SESSION_HUB_NAME
        /\ UnknownSession(m)

\* ------------------------------------------------------------------------
\* Token lifetimes
\* ------------------------------------------------------------------------
\* Request r stores a token at this step.
Issues(r) == reqs[r].pc = "t_insert" /\ DOMAIN tokens' # DOMAIN tokens
IssuedRow == tokens'[CHOOSE id \in DOMAIN tokens' : id \notin DOMAIN tokens]

NeverExpiring(o) == o.neverExpires \/ (o.hasDays /\ o.days = 0 /\ ~o.halfDay)

\* clamp(expiresInDays, 1, 365) days in seconds, 30 days when omitted;
\* expiresInDays counted in half days.
ClampedLifetime(o) ==
    IF o.hasDays
    THEN MaxOf(2, MinOf(2 * MAX_TOKEN_TTL_DAYS, 2 * o.days + (IF o.halfDay THEN 1 ELSE 0)))
         * (DaySeconds \div 2)
    ELSE 30 * DaySeconds

\* clamp(floor(expiresInDays), 1, 365) days in seconds, 30 days when omitted.
ClampedWholeDays(o) ==
    IF o.hasDays THEN MaxOf(1, MinOf(365, o.days)) * DaySeconds ELSE 30 * DaySeconds

\* C15 as stated: the stored expiresAt is null for neverExpires or
\* expiresInDays = 0, and createdAt + clamp(expiresInDays, 1, 365) days (30
\* days when omitted) otherwise.
C15_ExpiresFromCreatedAt ==
    [][\A r \in Slots :
         Issues(r) =>
            IssuedRow.expiresAt =
                IF NeverExpiring(reqs[r].tmp.options) THEN NoTime
                ELSE IssuedRow.createdAt + ClampedLifetime(reqs[r].tmp.options)]_vars

\* C15: the stored expiresAt is null for neverExpires or expiresInDays = 0;
\* otherwise it is T + clamp(floor(expiresInDays), 1, 365) days (30 days when
\* omitted), where T is the clock when the options were validated, which is
\* no later than the createdAt the row gets.
C15_ExpiresFromValidation ==
    [][\A r \in Slots :
         Issues(r) =>
            /\ IssuedRow.createdAt = now
            /\ IF NeverExpiring(reqs[r].tmp.options)
               THEN IssuedRow.expiresAt = NoTime
               ELSE \E T \in 0..IssuedRow.createdAt :
                       IssuedRow.expiresAt = T + ClampedWholeDays(reqs[r].tmp.options)]_vars

\* Tokens issued for expiresInDays = 400 (capped at 365 days) and for
\* expiresInDays = 0.5 (raised to one day) a second after validation.
C15_Witness ==
    \E id \in DOMAIN tokens :
        /\ tokens[id].createdAt > 0
        /\ tokens[id].expiresAt \in {365 * DaySeconds + tokens[id].createdAt - 1,
                                     DaySeconds + tokens[id].createdAt - 1}

\* ------------------------------------------------------------------------
\* Tokens bound to workspaces
\* ------------------------------------------------------------------------
WorkspaceNotFound == jsonResponse(404, [error |-> "Workspace not found for this user."])

OwnsWorkspace(userId, workspaceId) ==
    workspaceId \in DOMAIN workspaces /\ workspaces[workspaceId].userId = userId

\* Every stored token bound to a workspace that exists has that workspace's owner.
TokenWorkspaceOwnerMatches ==
    \A id \in DOMAIN tokens :
        (tokens[id].workspaceId # Absent /\ tokens[id].workspaceId \in DOMAIN workspaces)
            => workspaces[tokens[id].workspaceId].userId = tokens[id].userId

\* createToken for a workspace the caller does not own answers 404 (unless
\* the request dies first) and stores nothing; a token is stored with a workspaceId only for a workspace
\* its user owns.
ForeignWorkspaceRefused ==
    \A r \in Slots :
        /\ (reqs[r].pc = "t_wscheck" /\ reqs'[r] # reqs[r]
              /\ ~OwnsWorkspace(reqs[r].ctx.userId, reqs[r].tmp.workspaceId))
             => /\ reqs'[r].pc \in {"done", "idle"}
                /\ reqs'[r].pc = "done" => reqs'[r].resp = WorkspaceNotFound
                /\ tokens' = tokens
        /\ (Issues(r) /\ IssuedRow.workspaceId # Absent)
             => OwnsWorkspace(IssuedRow.userId, IssuedRow.workspaceId)

\* C16: every token with a non-null workspaceId is owned by the user who owns
\* that workspace, and issuing a token for a workspaceId that does not exist
\* or belongs to another user fails with not-found and stores no token.
C16_TokenWorkspaceSameOwner ==
    [](TokenWorkspaceOwnerMatches) /\ [][ForeignWorkspaceRefused]_vars

\* A user was refused a token for a workspace whose owner holds a token
\* bound to it.
C16_Witness ==
    /\ \E id \in DOMAIN tokens : OwnsWorkspace(tokens[id].userId, tokens[id].workspaceId)
    /\ \E r \in Slots :
          reqs[r].pc = "done" /\ reqs[r].op = "createToken" /\ reqs[r].resp = WorkspaceNotFound
    /\ Cardinality(DOMAIN users) > 1

\* ------------------------------------------------------------------------
\* Registration and email uniqueness
\* ------------------------------------------------------------------------
Conflict == jsonResponse(409, [error |-> "A user with this email already exists."])

NoDuplicateEmails ==
    \A a \in DOMAIN users, b \in DOMAIN users : users[a].email = users[b].email => a = b

\* A register call never reaches its INSERT for an email found registered,
\* and one that finds the email registered at its INSERT adds no user.
DuplicateAddsNoUser ==
    \A r \in Slots :
        /\ (reqs[r] = Idle /\ reqs'[r].op = "register" /\ reqs'[r].pc = "g_insert")
             => UsersByEmail(reqs'[r].tmp.email) = {}
        /\ (reqs[r].pc = "g_insert" /\ reqs'[r] # reqs[r]
              /\ UsersByEmail(reqs[r].tmp.email) # {})
             => users' = users

\* A register call that finds the email registered at its INSERT answers 409.
DuplicateAnswersConflict ==
    \A r \in Slots :
        (reqs[r].pc = "g_insert" /\ reqs'[r].pc = "done"
           /\ UsersByEmail(reqs[r].tmp.email) # {})
          => reqs'[r].resp = Conflict

\* C17: no two user records hold the same normalized email, and registering
\* an email that is already registered, in any letter case, returns a
\* conflict and adds no user, in every interleaving of register calls.
C17_DuplicateRegisterConflicts ==
    [](NoDuplicateEmails) /\ [][DuplicateAddsNoUser /\ DuplicateAnswersConflict]_vars

\* With the UNIQUE (email) constraint, in every interleaving emails stay
\* unique and a duplicate registration adds no user.
EmailsStayUnique ==
    [](NoDuplicateEmails) /\ [][DuplicateAddsNoUser]_vars

\* ------------------------------------------------------------------------
\* Revoking twice
\* ------------------------------------------------------------------------
\* q is a revokeToken call by the owner of a token that is already revoked.
RevokesRevoked(q) ==
    /\ q.op = "revokeToken" /\ q.pc = "r_select"
    /\ q.tmp.tokenId \in DOMAIN tokens
    /\ tokens[q.tmp.tokenId].userId = q.ctx.userId
    /\ tokens[q.tmp.tokenId].revokedAt # NoTime

AlreadyRevoked(tokenId) ==
    jsonResponse(200, [tokenId |-> tokenId, revokedAt |-> tokens[tokenId].revokedAt,
                       alreadyRevoked |-> TRUE])

RepeatedRevoke ==
    /\ \A r \in Slots :
          /\ (reqs[r] = Idle /\ RevokesRevoked(reqs'[r]))
               => tokens'[reqs'[r].tmp.tokenId] = tokens[reqs'[r].tmp.tokenId]
          /\ (RevokesRevoked(reqs[r]) /\ reqs'[r] # reqs[r])
               => /\ reqs'[r].pc \in {"done", "idle"}
                  /\ reqs'[r].pc = "done" => reqs'[r].resp = AlreadyRevoked(reqs[r].tmp.tokenId)
                  /\ tokens' = tokens
    /\ \A id \in DOMAIN tokens :
          tokens[id].revokedAt # NoTime
            => (id \in DOMAIN tokens' /\ tokens'[id].revokedAt = tokens[id].revokedAt)

\* C18: once a token is revoked, a later revokeToken on it by its owner
\* answers 200 with alreadyRevoked = true and the revokedAt of the first
\* revocation, and leaves the token's row as it was.
C18_RevokeIdempotent == [][RepeatedRevoke]_vars

\* A token revoked on one day was revoked again by its owner on a later day.
C18_Witness ==
    \E r \in Slots, id \in DOMAIN tokens :
        /\ reqs[r].pc = "done" /\ reqs[r].op = "revokeToken"
        /\ reqs[r].resp = AlreadyRevoked(id)
        /\ tokens[id].revokedAt < now

\* ------------------------------------------------------------------------
\* Listing and revoking are scoped to the caller
\* ------------------------------------------------------------------------
TokenNotFound == jsonResponse(404, [error |-> "Token not found for this user."])

\* q is a revokeToken call for a token that belongs to somebody else.
RevokesForeign(q) ==
    /\ q.op = "revokeToken" /\ q.pc = "r_select"
    /\ q.tmp.tokenId \in DOMAIN tokens
    /\ tokens[q.tmp.tokenId].userId # q.ctx.userId

Usable(id, t) == TokenRowIsValid(tokens[id], tokens[id].tokenHash, t)

\* revokeToken on another user's token: the row is untouched from arrival to
\* the 404, so a token that was usable stays usable.
ForeignRevokeRefused ==
    \A r \in Slots :
        /\ (reqs[r] = Idle /\ RevokesForeign(reqs'[r]))
             => tokens'[reqs'[r].tmp.tokenId] = tokens[reqs'[r].tmp.tokenId]
        /\ (RevokesForeign(reqs[r]) /\ reqs'[r] # reqs[r])
             => /\ reqs'[r].pc \in {"done", "idle"}
                /\ reqs'[r].pc = "done" => reqs'[r].resp = TokenNotFound
                /\ tokens' = tokens

\* listTokens answers with the caller's tokens, all of them and no others,
\* and changes no row.
ListsOwnTokens ==
    \A r \in Slots :
        (reqs[r].pc = "l_select" /\ reqs'[r].pc = "done")
          => /\ reqs'[r].resp.status = 200
             /\ {reqs'[r].resp.payload.tokens[i].id : i \in DOMAIN reqs'[r].resp.payload.tokens}
                  = {id \in DOMAIN tokens : tokens[id].userId = reqs[r].ctx.userId}
             /\ tokens' = tokens

\* Only a revokeToken call by a token's owner sets its revoked_at.
OnlyOwnerRevokes ==
    \A id \in DOMAIN tokens :
        (tokens[id].revokedAt = NoTime /\ id \in DOMAIN tokens' /\ tokens'[id].revokedAt # NoTime)
          => \E r \in Slots : reqs[r].pc \in {"r_update", "d_revoke"}
                               /\ reqs[r].ctx.userId = tokens[id].userId

\* C19: revokeToken on another user's token id answers not-found and leaves
\* that token unchanged and still usable; listTokens returns only tokens of
\* the authenticated caller.
C19_ScopedToCaller == [][ForeignRevokeRefused /\ ListsOwnTokens /\ OnlyOwnerRevokes]_vars

\* A caller was refused the revocation of another user's token, which is
\* still usable, while both users hold tokens.
C19_Witness ==
    /\ \E r \in Slots :
          reqs[r].pc = "done" /\ reqs[r].op = "revokeToken" /\ reqs[r].resp = TokenNotFound
    /\ \E a \in DOMAIN tokens, b \in DOMAIN tokens :
          /\ tokens[a].userId # tokens[b].userId
          /\ Usable(a, now) /\ Usable(b, now)
          /\ tokens[a].lastUsedAt # NoTime

\* ------------------------------------------------------------------------
\* Workspace credentials
\* ------------------------------------------------------------------------
\* The deployment key is configured, the record exists, userId owns it and
\* its secret opens under the key.
Entitled(userId, workspaceId) ==
    /\ env.AUTH_DB
    /\ env.JIRA_WORKSPACE_ENCRYPTION_KEY # Absent
    /\ Len(env.JIRA_WORKSPACE_ENCRYPTION_KEY) >= MIN_WORKSPACE_SECRET_LENGTH
    /\ workspaceId \in DOMAIN workspaces
    /\ workspaces[workspaceId].userId = userId
    /\ workspaces[workspaceId].jiraApiTokenCiphertext[2]
         = deriveWorkspaceCryptoKey(env.JIRA_WORKSPACE_ENCRYPTION_KEY)

LastUsedChanged ==
    {w \in DOMAIN workspaces \cap DOMAIN workspaces' :
        workspaces'[w].lastUsedAt # workspaces[w].lastUsedAt}

CredentialsOnlyWhenEntitled ==
    \A r \in Slots :
        /\ (reqs[r] = Idle /\ reqs'[r].op = "getWorkspaceCredentials")
             => /\ workspaces' = workspaces
                /\ reqs'[r].pc = "done" => (reqs'[r].resp = None
                                            /\ ~Entitled(reqs'[r].userId, reqs'[r].workspaceId))
                /\ reqs'[r].pc = "c_touch" => Entitled(reqs'[r].userId, reqs'[r].workspaceId)
        /\ (reqs[r].pc = "c_touch" /\ reqs'[r].pc = "done")
             => /\ Entitled(reqs[r].userId, reqs[r].workspaceId)
                /\ reqs'[r].resp # None
                /\ reqs'[r].resp.workspaceId = reqs[r].workspaceId
                /\ reqs'[r].resp.jiraApiToken
                     = workspaces[reqs[r].workspaceId].jiraApiTokenCiphertext[4]
                /\ LastUsedChanged \subseteq {reqs[r].workspaceId}
                /\ workspaces'[reqs[r].workspaceId].lastUsedAt = now

LastUsedOnlyOnSuccess ==
    \A w \in LastUsedChanged :
        \E r \in Slots : /\ reqs[r].pc = "c_touch" /\ reqs[r].workspaceId = w
                         /\ reqs'[r].pc = "done" /\ reqs'[r].resp # None

\* C20: getWorkspaceCredentials returns credentials only when the key is
\* configured, the record exists, userId owns it and decryption succeeds;
\* otherwise it returns null, whatever the cause, and writes nothing:
\* lastUsedAt changes only in a call that returns credentials.
C20_CredentialsOrNothing ==
    [][CredentialsOnlyWhenEntitled /\ LastUsedOnlyOnSuccess]_vars

\* The owner asked for an existing workspace under a deployment key that
\* does not open its secret and got nothing; the row was never marked used.
C20_Witness ==
    \E r \in Slots :
        /\ reqs[r].pc = "done" /\ reqs[r].op = "getWorkspaceCredentials"
        /\ reqs[r].resp = None
        /\ reqs[r].workspaceId \in DOMAIN workspaces
        /\ workspaces[reqs[r].workspaceId].userId = reqs[r].userId
        /\ env.JIRA_WORKSPACE_ENCRYPTION_KEY = RotatedWorkspaceSecret
        /\ workspaces[reqs[r].workspaceId].lastUsedAt = NoTime
        /\ now > 0

\* ------------------------------------------------------------------------
\* The secret read back is the secret stored
\* ------------------------------------------------------------------------
\* The secret createWorkspace was given for the workspace named `name`,
\* trimmed as createWorkspace trims it.
SecretGiven(name) ==
    Trim((CHOOSE input \in SealInputs : input.workspaceName = name).jiraApiToken)

OwnerReadsBack ==
    \A r \in Slots :
        /\ (reqs[r] = Idle /\ reqs'[r].op = "getWorkspaceCredentials"
              /\ reqs'[r].workspaceId \in DOMAIN workspaces
              /\ workspaces[reqs'[r].workspaceId].userId = reqs'[r].userId)
             => reqs'[r].pc = "c_touch"
        /\ (reqs[r].pc = "c_touch" /\ reqs'[r].pc = "done")
             => /\ Len(reqs'[r].resp.jiraApiToken) >= 8
                /\ reqs'[r].resp.jiraApiToken
                     = SecretGiven(workspaces[reqs[r].workspaceId].workspaceName)

UserMismatchResponse ==
    createJsonRpcError(403, -32003, "Session belongs to a different authenticated user.")

\* C22: the response to a request on a found session that fails an ownership
\* check is the same (status, error code and message) whichever claim
\* differs: every such rejection equals the one given for a differing user id.
C22_MismatchIndistinguishable ==
    \A m \in Slots : (FoundSession(m) /\ Forbidden(m)) => mcp[m].resp = UserMismatchResponse

\* Status and error code of an ownership rejection do not depend on the
\* claim that differs.
MismatchSameStatusAndCode ==
    \A m \in Slots :
        (FoundSession(m) /\ Forbidden(m))
          => /\ mcp[m].resp.status = UserMismatchResponse.status
             /\ mcp[m].resp.payload.error.code = UserMismatchResponse.payload.error.code

\* ------------------------------------------------------------------------
\* Cross-origin permission headers
\* ------------------------------------------------------------------------
\* The allowed origin set: http or https on localhost or 127.0.0.1, any port.
AllowedOrigins == {"http://localhost:5173", "https://127.0.0.1", "http://LOCALHOST"}

PermissionHeaders ==
    {"access-control-allow-origin", "access-control-allow-credentials",
     "access-control-allow-methods", "access-control-allow-headers",
     "access-control-expose-headers"}

RequestOrigin(m) == Get(mcp[m].client.headers, "origin")

\* C23: a response leaving the router carries the Access-Control-* headers,
\* naming the request's origin, if and only if that origin is in the allowed
\* set; for any other origin and without Origin it carries none of them, on
\* preflight and error responses too.
C23_CorsOnlyForAllowedOrigins ==
    \A m \in Slots :
        mcp[m].pc = "done" =>
            IF RequestOrigin(m) \in AllowedOrigins
            THEN /\ PermissionHeaders \subseteq DOMAIN ResponseHeaders(mcp[m].resp)
                 /\ mcp[m].resp.headers["access-control-allow-origin"] = RequestOrigin(m)
            ELSE /\ DOMAIN ResponseHeaders(mcp[m].resp) \cap PermissionHeaders = {}
                 /\ "headers" \notin DOMAIN mcp[m].resp

\* An unauthorized handshake from an origin outside the set went back bare.
C23_Witness ==
    \E m \in Slots :
        /\ mcp[m].pc = "done"
        /\ RequestOrigin(m) = "http://localhost.evil.example"
        /\ mcp[m].resp.status = 401
        /\ "headers" \notin DOMAIN mcp[m].resp

\* ------------------------------------------------------------------------
\* Requests that supply no session id
\* ------------------------------------------------------------------------
\* The request passed the actor's signature verification.
Verified(request) ==
    /\ request.pathname = "/mcp"
    /\ resolveInternalSigningSecret(env) # Absent
    /\ verifyWorkerToDoRequestSignature(request, resolveInternalSigningSecret(env), DateNow)

\* The value is carried by the header or by the query parameter.
Carries(request, headerName, queryName) ==
    \/ TrimOrNull(Get(request.headers, headerName)) # Absent
    \/ TrimOrNull(Get(request.search, queryName)) # Absent

\* A POST initialize call with base URL, username and secret.
InitializeWithCredentials(request) ==
    /\ request.method = "POST"
    /\ request.body = InitializeBody
    /\ Carries(request, "x-jira-base-url", "jiraBaseUrl")
    /\ Carries(request, "x-jira-username", "jiraUsername")
    /\ Carries(request, "x-jira-api-token", "jiraApiToken")

\* The actor's answer to a verified request without session id.
AnsweredWithoutSid ==
    \A m \in Slots :
        (Handled(m) /\ Verified(mcp[m].request)
           /\ getSessionIdFromRequest(mcp[m].request) = Absent)
          => IF InitializeWithCredentials(mcp[m].request)
             THEN mcp[m].outcome = "create"
             ELSE mcp[m].outcome = "error" /\ mcp[m].resp.status = 400

\* A session is added only by a verified initialize call with credentials and
\* without session id; an error answer leaves every table as it was.
CreatedOnlyByHandshake ==
    /\ \A p \in Partitions :
          DOMAIN sessions'[p] \ DOMAIN sessions[p] # {} =>
              \E m \in Slots :
                  /\ mcp[m].pc = "m_connect" /\ mcp[m].partition = p
                  /\ Verified(mcp[m].request)
                  /\ getSessionIdFromRequest(mcp[m].request) = Absent
                  /\ InitializeWithCredentials(mcp[m].request)
    /\ \A m \in Slots :
          (mcp[m].pc = "m_actor" /\ mcp'[m].pc = "done" /\ mcp'[m].outcome = "error")
            => sessions' = sessions

\* C24: a verified request that supplies no session id creates a session
\* only if it is a POST initialize call that carries base URL, username and
\* secret, each by header or query parameter; otherwise the actor answers
\* 400 and its session table is unchanged.
C24_HandshakeOrBadRequest ==
    [](AnsweredWithoutSid) /\ [][CreatedOnlyByHandshake]_vars

\* An initialize call that carried only two of the three credentials was
\* answered 400 while another session was in the table.
C24_Witness ==
    \E m \in Slots :
        /\ Handled(m) /\ Verified(mcp[m].request)
        /\ getSessionIdFromRequest(mcp[m].request) = Absent
        /\ mcp[m].request.body = InitializeBody
        /\ Carries(mcp[m].request, "x-jira-base-url", "jiraBaseUrl")
        /\ ~Carries(mcp[m].request, "x-jira-api-token", "jiraApiToken")
        /\ mcp[m].resp.status = 400
        /\ sessions[mcp[m].partition] # EmptyTable

\* ------------------------------------------------------------------------
\* Tokens and the workspaces they are scoped to
\* ------------------------------------------------------------------------
\* The unrevoked tokens scoped to a workspace that is not stored.
OrphanTokens ==
    {id \in DOMAIN tokens : /\ tokens[id].revokedAt = NoTime
                            /\ tokens[id].workspaceId # Absent
                            /\ tokens[id].workspaceId \notin DOMAIN workspaces}

\* C25: in every reachable state, under any interleaving of token creation
\* and deleteWorkspace calls by the same user, no unrevoked token is scoped
\* to a workspace that does not exist.
C25_NoLiveTokenOnMissingWorkspace == OrphanTokens = {}

\* With one call at a time, no unrevoked token is scoped to a missing workspace.
SequentialNoOrphanTokens == OrphanTokens = {} \/ \E r \in Slots : r # 1 /\ reqs[r].pc # "idle"

\* ------------------------------------------------------------------------
\* The session id the signer signs and the one the actor looks up
\* ------------------------------------------------------------------------
\* The session id in the canonical string a verifying request was signed with.
SignedSid(m) == getSessionId(mcp[m].request.headers, mcp[m].request)

\* The actor's session id, with "no session id" written as the signer writes it.
ActorSid(m) == IF LookupSid(m) = Absent THEN "" ELSE LookupSid(m)

\* The names under which the request carries a session id, blank or not.
SidCarriers(request) ==
    {h \in {"mcp-session-id", "x-mcp-session-id"} : h \in DOMAIN request.headers}
    \cup {q \in {"sessionId"} : q \in DOMAIN request.search}

\* C26: for every request that passes signature verification, the session id
\* the actor uses for its table lookup equals the session id in the signed
\* canonical string, whatever combination of present, absent or blank
\* mcp-session-id header, x-mcp-session-id header and sessionId query
\* parameter the request carries.
C26_LookupSidIsSignedSid ==
    \A m \in Slots : (AtActor(m) /\ Verifies(m)) => ActorSid(m) = SignedSid(m)

\* A request that carries its session id under at most one name is looked up
\* under the id it was signed with.
SingleCarrierSidAgrees ==
    \A m \in Slots :
        (AtActor(m) /\ Verifies(m) /\ Cardinality(SidCarriers(mcp[m].request)) <= 1)
            => ActorSid(m) = SignedSid(m)

\* ------------------------------------------------------------------------
\* Concurrent handshakes in one partition
\* ------------------------------------------------------------------------
\* The ownership tuple and backend credentials of the request of slot m.
OwnBinding(m) ==
    [credentials |-> readJiraCredentials(mcp[m].request),
     authUserId |-> RequestClaims(m).authUserId,
     authTokenId |-> RequestClaims(m).authTokenId,
     authWorkspaceId |-> RequestClaims(m).authWorkspaceId]

\* The handshake of slot m completes at this step.
Completes(m) == mcp[m].pc = "m_connect" /\ mcp'[m].pc = "done"

\* A completing handshake adds one entry, under an id never handed out
\* before, bound to its own request; nothing else in any table changes.
CompletionAddsOwnEntry ==
    \A m \in Slots :
        Completes(m) =>
            LET sid == mcp'[m].resp.sessionId
                p == mcp[m].partition
            IN /\ mcp'[m].outcome = "create"
               /\ sid \notin GeneratedSids
               /\ sid \notin DOMAIN sessions[p]
               /\ sessions' = [sessions EXCEPT ![p] = Extend(@, sid, OwnBinding(m))]
               /\ \A m2 \in Slots \ {m} : mcp'[m2] = mcp[m2]

\* The session a completed handshake reports is in the table of its
\* partition, bound to the request that started the handshake.
CompletedBoundToOwnRequest ==
    \A m \in Slots :
        (Handled(m) /\ mcp[m].outcome = "create") =>
            /\ mcp[m].resp.sessionId \in DOMAIN sessions[mcp[m].partition]
            /\ sessions[mcp[m].partition][mcp[m].resp.sessionId] = OwnBinding(m)

\* C27: however concurrent handshake requests of one partition interleave at
\* their await points, each completed handshake adds exactly one table entry
\* under its own distinct session id, bound to the ownership tuple and backend
\* credentials of the request that started it and never to those of another
\* in-flight request.
C27_HandshakesDoNotMix ==
    [](CompletedBoundToOwnRequest) /\ [][CompletionAddsOwnEntry]_vars

\* A handshake has completed while a later-started one of another caller
\* with other credentials is still between server creation and its session id,
\* in the same partition, and an earlier session is in the table.
C27_Witness ==
    \E m, m2 \in Slots :
        /\ m # m2
        /\ Handled(m) /\ mcp[m].outcome = "create"
        /\ mcp[m2].pc = "m_connect"
        /\ mcp[m2].partition = mcp[m].partition
        /\ mcp[m2].entry.authUserId # OwnBinding(m).authUserId
        /\ mcp[m2].entry.credentials # OwnBinding(m).credentials
        /\ sessions[mcp[m].partition][mcp[m].resp.sessionId] = OwnBinding(m)
        /\ Cardinality(DOMAIN sessions[mcp[m].partition]) = 2

\* ------------------------------------------------------------------------
\* Whose backend credentials a session is bound to
\* ------------------------------------------------------------------------
\* The handshake of slot m created a session.
CreatedSession(m) == Handled(m) /\ mcp[m].outcome = "create"
SessionOf(m) == sessions[mcp[m].partition][mcp[m].resp.sessionId]

\* The client of slot m sent backend credentials of its own, by header or query.
ClientSentCredentials(m) ==
    \/ {"x-jira-base-url", "x-jira-username", "x-jira-api-token"}
           \cap DOMAIN mcp[m].client.headers # {}
    \/ {"jiraBaseUrl", "jiraUsername", "jiraApiToken"} \cap DOMAIN mcp[m].client.search # {}

\* C28: for a caller authenticated with a workspace-bound token, the backend
\* credentials bound to a session created by its handshake are the ones the
\* vault resolved for that workspace; x-jira-* headers and jira* query
\* parameters supplied by the client never determine them.
C28_SessionBoundToVaultCredentials ==
    \A m \in Slots :
        (CreatedSession(m) /\ BoundWorkspace(m) # Absent) =>
            /\ BoundCredentials(m) # None
            /\ SessionOf(m).credentials.baseUrl = BoundCredentials(m).jiraBaseUrl
            /\ SessionOf(m).credentials.username = BoundCredentials(m).jiraUsername
            /\ SessionOf(m).credentials.apiToken = BoundCredentials(m).jiraApiToken
            /\ SessionOf(m).authWorkspaceId = BoundWorkspace(m)

\* A workspace-bound caller whose handshake carried credentials of its own in
\* the query string got a session bound to the vault's credentials.
C28_Witness ==
    \E m \in Slots :
        /\ CreatedSession(m)
        /\ BoundWorkspace(m) = "w1"
        /\ "jiraApiToken" \in DOMAIN mcp[m].client.search
        /\ ClientSentCredentials(m)
        /\ SessionOf(m).credentials.apiToken = "jira-api-token-1"

\* ------------------------------------------------------------------------
\* Overlapping revocations of one token
\* ------------------------------------------------------------------------
\* Call r answers at this step that it revoked token id itself.
ReportsRevoked(r, id) ==
    /\ reqs[r].op = "revokeToken" /\ reqs[r].pc # "done"
    /\ reqs'[r].pc = "done"
    /\ reqs'[r].resp.status = 200
    /\ reqs'[r].resp.payload.tokenId = id
    /\ ~reqs'[r].resp.payload.alreadyRevoked

\* A call that reports alreadyRevoked = false is the first to revoke the
\* token and stores the timestamp it reports; a stored revokedAt stays.
OneEffectiveRevoke ==
    /\ \A r \in Slots, id \in DOMAIN tokens :
          ReportsRevoked(r, id) =>
              /\ tokens[id].revokedAt = NoTime
              /\ tokens'[id].revokedAt = reqs'[r].resp.payload.revokedAt
    /\ \A id \in DOMAIN tokens :
          tokens[id].revokedAt # NoTime => tokens'[id].revokedAt = tokens[id].revokedAt

\* C29: for each token, over all revokeToken calls in any interleaving, at
\* most one call reports alreadyRevoked = false, and the revokedAt stored for
\* the token is the timestamp that call reported.
C29_SingleEffectiveRevoke == [][OneEffectiveRevoke]_vars

\* With one call at a time, a call that reports alreadyRevoked = false is the
\* first to revoke the token, and the stored revokedAt stays.
SequentialOneEffectiveRevoke ==
    [][(\A r \in Slots : r # 1 => reqs[r] = Idle /\ reqs'[r] = Idle) => OneEffectiveRevoke]_vars

\* ------------------------------------------------------------------------
\* The order of the actor's checks
\* ------------------------------------------------------------------------
\* The checks in the order 1..7: signing secret, signature, body, ownership,
\* unknown session id, initialize, credentials.  The last two apply to a
\* request without session id, the fourth to one whose session is found.
FailsCheck(m, i) ==
    LET request == mcp[m].request
        sid == LookupSid(m)
        table == sessions[mcp[m].partition]
    IN CASE i = 1 -> ActorSecret = Absent
         [] i = 2 -> ~Verifies(m)
         [] i = 3 -> request.method = "POST" /\ request.body \notin {InitializeBody, CallBody}
         [] i = 4 -> /\ sid # Absent /\ sid \in DOMAIN table
                     /\ \E f \in ClaimFields :
                            table[sid][f] # Absent /\ table[sid][f] # RequestClaims(m)[f]
         [] i = 5 -> sid # Absent /\ sid \notin DOMAIN table
         [] i = 6 -> sid = Absent /\ ~(request.method = "POST" /\ request.body = InitializeBody)
         [] OTHER -> sid = Absent /\ \E n \in {<<"x-jira-base-url", "jiraBaseUrl">>,
                                               <<"x-jira-username", "jiraUsername">>,
                                               <<"x-jira-api-token", "jiraApiToken">>} :
                                        ~Carries(request, n[1], n[2])

FailedChecks(m) == {i \in 1..7 : FailsCheck(m, i)}
EarliestFailed(m) == CHOOSE i \in FailedChecks(m) : \A j \in FailedChecks(m) : i <= j

\* The response of check i.
AnswersCheck(resp, i) ==
    /\ resp.status = <<500, 401, 400, 403, 404, 400, 400>>[i]
    /\ resp.payload.error.code = <<-32603, -32002, -32700, -32003, -32001, -32000, -32000>>[i]
    /\ i = 6 => resp.payload.error.message
                  = "Bad Request: Send initialize first or include a valid MCP-Session-Id header."
    /\ i = 7 => resp.payload.error.message
                  = "Missing Jira credentials. Provide X-Jira-Base-Url, X-Jira-Username, and X-Jira-Api-Token."

\* handleMcpRequest decides on the request of slot m at this step.
Decides(m) ==
    /\ mcp[m].pc = "m_actor"
    /\ mcp'[m].pc \in {"done", "m_connect"}
    /\ mcp[m].request.pathname = "/mcp"

\* The decision is the response of the earliest failing check, and a
\* transport only when no check fails.
FirstFailureAnswers ==
    \A m \in Slots :
        Decides(m) =>
            IF FailedChecks(m) # {}
            THEN /\ mcp'[m].pc = "done"
                 /\ mcp'[m].outcome = "error"
                 /\ AnswersCheck(mcp'[m].resp, EarliestFailed(m))
                 /\ sessions' = sessions
            ELSE \/ mcp'[m].pc = "m_connect"
                 \/ mcp'[m].pc = "done" /\ mcp'[m].outcome = "delegate"

\* C30: handleMcpRequest evaluates its checks in one fixed order and answers
\* with the first that fails: missing signing secret (500), signature
\* failure (401), unparseable POST body (400, parse error), ownership
\* mismatch on a found session (403), unknown supplied session id (404),
\* non-initialize request without session id (400), missing backend
\* credentials (400); a request that fails several gets the response of the
\* earliest, and only a request that passes every applicable check reaches a
\* transport.
C30_FirstFailingCheckAnswers == [][FirstFailureAnswers]_vars

\* A request with a stale signature, a body that does not parse and an
\* unknown session id was answered unauthorized.
C30_Witness ==
    \E m \in Slots :
        /\ Handled(m)
        /\ mcp[m].request.pathname = "/mcp"
        /\ {2, 3, 5} \subseteq FailedChecks(m)
        /\ 1 \notin FailedChecks(m)
        /\ AnswersCheck(mcp[m].resp, 2)

====
